---------------------------- MODULE Spec2Model ----------------------------
(***************************************************************************)
(* A model of the Harvest gateway: the sliding-window rate limiter, the    *)
(* response cache, HarvestClient.request and HarvestClient.autoPaginate.   *)
(*                                                                         *)
(* Time is kept relative to the present: a stored instant ts is held as    *)
(* its age  Date.now() - ts, a deadline d as the time left d - Date.now(), *)
(* and the passing of time (Tick) ages every stored instant and shortens   *)
(* every deadline and timer.  Strings that are split or matched are        *)
(* sequences of one-character strings.                                     *)
(***************************************************************************)
EXTENDS Integers, Sequences, FiniteSets, TLC

\* ------------------------------------------------------------------ bounds
\* The time that passes in one Tick step, in milliseconds.
TickMs == 5000
\* The number of concurrent request tasks.
NumTasks == 2
\* RateLimitConfig.maxRequests of the limiter under test.
MaxRequests == 2
\* CacheConfig.maxSize of the cache under test.
MaxSize == 2
\* The number of calls of request one client makes, one after the other.
MaxCalls == 2

\* ------------------------------------------------------- program constants
\* maxRetries = 3, the default of request's options.
MaxRetries == 3
\* parseInt(response.headers.get('Retry-After') || '15', 10)
DefaultRetryAfter == 15
\* Math.min(delayMs, 500)
StaggerCapMs == 500
\* retryAfterSeconds * 1000, retryAfter * 1000, and the division in getAge
MsPerSecond == 1000

\* --------------------------------------------------------- configuration
\* RateLimitConfig.windowMs and CacheConfig.ttlMs, in ticks of the model.
WindowMs == 2 * TickMs
TtlMs == 2 * TickMs
\* RateLimitConfig.warningThreshold of the limiter under test, as a fraction.
WarningThreshold == [num |-> 1, den |-> 2]

Min(a, b) == IF a < b THEN a ELSE b
Max(a, b) == IF a > b THEN a ELSE b

Tasks == 1 .. NumTasks

\* --------------------------------------------------------------- strings
Slash == "/"

RECURSIVE SplitFrom(_, _, _)
\* s.split(sep) from position i on: the pieces between the separators.
SplitFrom(s, sep, i) ==
    IF i > Len(s) THEN << <<>> >>
    ELSE LET rest == SplitFrom(s, sep, i + 1)
         IN  IF s[i] = sep THEN << <<>> >> \o rest
             ELSE << <<s[i]>> \o Head(rest) >> \o Tail(rest)

Split(s, sep) == SplitFrom(s, sep, 1)

\* /^prefix/.test(s)
StartsWith(s, prefix) ==
    /\ Len(prefix) <= Len(s)
    /\ SubSeq(s, 1, Len(prefix)) = prefix

\* s.includes(sub)
Includes(s, sub) ==
    \E i \in 1 .. (Len(s) - Len(sub) + 1) : SubSeq(s, i, i + Len(sub) - 1) = sub

\* The request paths of the model: /c, /c/1, /cs and /p.
PathC == <<"/", "c">>
PathC1 == <<"/", "c", "/", "1">>
PathCs == <<"/", "c", "s">>
PathP == <<"/", "p">>
Paths == {PathC, PathC1, PathCs, PathP}

\* ---------------------------------------------------------- rate limiter
VARIABLES
    requestTimestamps,  \* HarvestRateLimiter.requestTimestamps, as ages, in push order
    retryAfterLeft      \* HarvestRateLimiter.retryAfterMs, as the time left to it (0: passed)

limiterVars == <<requestTimestamps, retryAfterLeft>>

\* The ages of s below cutoffAge, in order (Array.prototype.filter).
SelectAges(s, cutoffAge) == SelectSeq(s, LAMBDA age : age < cutoffAge)

\* A limiter that never prunes its window.
CleanOldTimestamps_KeepsAll(ts) == ts

\* cleanOldTimestamps: keep ts > now - windowMs, that is age < windowMs.
CleanOldTimestamps(ts) == SelectAges(ts, WindowMs)

\* Math.min(...timestamps) + windowMs - now: the oldest timestamp has the largest age.
RECURSIVE MaxAge(_)
MaxAge(ts) == IF ts = <<>> THEN 0 ELSE Max(Head(ts), MaxAge(Tail(ts)))

\* A delay that spreads the requests without a cap.
StaggerDelay_Uncapped(windowMs, remaining) == (windowMs \div remaining) \div 2

\* Math.min(Math.floor(windowMs / remaining / 2), 500)
StaggerDelay(windowMs, remaining) == Min((windowMs \div remaining) \div 2, StaggerCapMs)

\* An acquirePermit that looks at the window before the embargo.
PermitWait_WindowFirst(ts, left) ==
    LET count == Len(ts) IN
    IF count >= MaxRequests THEN Max(0, WindowMs - MaxAge(ts))
    ELSE IF left > 0 THEN left
    ELSE IF count * WarningThreshold.den >= MaxRequests * WarningThreshold.num
         THEN StaggerDelay(WindowMs, MaxRequests - count)
    ELSE 0

\* acquirePermit's result on the cleaned window ts with the embargo time left.
PermitWait(ts, left) ==
    LET count == Len(ts) IN
    IF left > 0 THEN left
    ELSE IF count >= MaxRequests
         THEN Max(0, WindowMs - MaxAge(ts))
    ELSE IF count * WarningThreshold.den >= MaxRequests * WarningThreshold.num
         THEN StaggerDelay(WindowMs, MaxRequests - count)
    ELSE 0

\* recordRequest: push Date.now().
RecordRequest(ts) == Append(ts, 0)

\* handleRateLimit: retryAfterMs = Date.now() + retryAfterSeconds * 1000.
HandleRateLimit(retryAfterSeconds) == retryAfterSeconds * MsPerSecond

\* getStatus on the cleaned window.
GetStatus(ts, left) ==
    LET count == Len(ts) IN
    [remaining |-> Max(0, MaxRequests - count),
     total |-> MaxRequests,
     resetMs |-> IF count > 0 THEN Max(0, WindowMs - MaxAge(ts)) ELSE 0,
     isThrottled |-> \/ left > 0
                     \/ count * WarningThreshold.den >= MaxRequests * WarningThreshold.num]

\* reset: both fields back to their initial values.
ResetLimiter == [requestTimestamps |-> <<>>, retryAfterLeft |-> 0]

\* ------------------------------------------------- calls on the limiter
VARIABLES
    permit   \* the last call made on the limiter directly: what it returned, and
             \*   the window and the embargo time left that it found

permitVars == <<permit>>

NoPermit ==
    [op |-> "none", waitMs |-> 0, window |-> <<>>, left |-> 0,
     status |-> [remaining |-> 0, total |-> 0, resetMs |-> 0, isThrottled |-> FALSE]]

\* The Retry-After seconds of the direct calls of handleRateLimit.
RetrySeconds == {1, DefaultRetryAfter}

\* limiter.acquirePermit()
AcquirePermitOp ==
    LET cleaned == CleanOldTimestamps(requestTimestamps) IN
    /\ requestTimestamps' = cleaned
    /\ permit' = [NoPermit EXCEPT !.op = "acquirePermit",
                                  !.waitMs = PermitWait(cleaned, retryAfterLeft),
                                  !.window = requestTimestamps,
                                  !.left = retryAfterLeft]
    /\ UNCHANGED retryAfterLeft

\* limiter.recordRequest(), with or without a permit; the direct calls stop
\* one request past maxRequests.
RecordRequestOp ==
    /\ Len(requestTimestamps) <= MaxRequests
    /\ requestTimestamps' = RecordRequest(requestTimestamps)
    /\ permit' = [NoPermit EXCEPT !.op = "recordRequest"]
    /\ UNCHANGED retryAfterLeft

\* limiter.handleRateLimit(retryAfterSeconds)
HandleRateLimitOp(retryAfterSeconds) ==
    /\ retryAfterLeft' = HandleRateLimit(retryAfterSeconds)
    /\ permit' = [NoPermit EXCEPT !.op = "handleRateLimit", !.left = retryAfterLeft']
    /\ UNCHANGED requestTimestamps

\* limiter.getStatus()
GetStatusOp ==
    LET cleaned == CleanOldTimestamps(requestTimestamps) IN
    /\ requestTimestamps' = cleaned
    /\ permit' = [NoPermit EXCEPT !.op = "getStatus",
                                  !.status = GetStatus(cleaned, retryAfterLeft),
                                  !.window = requestTimestamps,
                                  !.left = retryAfterLeft]
    /\ UNCHANGED retryAfterLeft

\* limiter.reset()
ResetOp ==
    /\ requestTimestamps' = ResetLimiter.requestTimestamps
    /\ retryAfterLeft' = ResetLimiter.retryAfterLeft
    /\ permit' = [NoPermit EXCEPT !.op = "reset"]

\* ----------------------------------------------------------- cache keys
\* A params object: absent (undefined), or its entries in insertion order,
\* each <<key, value>> with the value a string or "undefined".
NoParams == [defined |-> FALSE, entries |-> <<>>]
Params(entries) == [defined |-> TRUE, entries |-> entries]

\* a.localeCompare(b) < 0 on the parameter names of the model.
KeyRank == [a |-> 1, b |-> 2]
KeyBefore(x, y) == KeyRank[x[1]] < KeyRank[y[1]]

RECURSIVE SortEntries(_)
\* Object.entries(params).sort(([a], [b]) => a.localeCompare(b)): a stable sort.
SortEntries(es) ==
    IF es = <<>> THEN <<>>
    ELSE LET rest == SortEntries(Tail(es))
             e == Head(es)
             before == SelectSeq(rest, LAMBDA x : KeyBefore(x, e))
             after == SelectSeq(rest, LAMBDA x : ~KeyBefore(x, e))
         IN  before \o <<e>> \o after

\* JSON.stringify of the sorted entries: an undefined value is written null.
JsonEntries(es) ==
    [i \in 1 .. Len(es) |-> <<es[i][1], IF es[i][2] = "undefined" THEN "null" ELSE es[i][2]>>]

\* const normalizedParams = params ? JSON.stringify(...) : ''
NormalizedParams(params) ==
    IF params.defined
    THEN [json |-> TRUE, entries |-> JsonEntries(SortEntries(params.entries))]
    ELSE [json |-> FALSE, entries |-> <<>>]

\* HarvestCache.generateKey: `${path}:${hash}`; the 12 hexadecimal digits of the
\* SHA-256 digest stand for their input, path + normalizedParams.
GenerateKey(path, params) ==
    [path |-> path, hash |-> <<path, NormalizedParams(params)>>]

\* The part of the key string a pattern of this program can match: `${path}:`.
KeyString(key) == key.path \o <<":">>

\* ------------------------------------------------------- response cache
VARIABLES
    cache   \* HarvestCache.cache: the entries, least recently used first; each
            \*   [key, data, tsAge (CachedResponse.timestamp, as an age), age (since set)]

cacheVars == <<cache>>

\* A cache built with room for one entry more than maxSize.
CacheOptions_MaxPlusOne ==
    [max |-> MaxSize + 1, ttl |-> TtlMs, updateAgeOnGet |-> FALSE, updateAgeOnHas |-> FALSE]

\* A cache whose reads restart the ttl.
CacheOptions_UpdateAgeOnGet ==
    [max |-> MaxSize, ttl |-> TtlMs, updateAgeOnGet |-> TRUE, updateAgeOnHas |-> FALSE]

\* new LRUCache({max, ttl, updateAgeOnGet: false, updateAgeOnHas: false})
CacheOptions ==
    [max |-> MaxSize, ttl |-> TtlMs, updateAgeOnGet |-> FALSE, updateAgeOnHas |-> FALSE]

CacheIndex(c, key) == {i \in 1 .. Len(c) : c[i].key = key}
CacheRemoveAt(c, i) == SubSeq(c, 1, i - 1) \o SubSeq(c, i + 1, Len(c))

\* LRUCache (package lru-cache): an entry is stale once its ttl has elapsed
\* since it was set.
LruIsStale(e) == e.age >= CacheOptions.ttl

\* LRUCache.get: a stale entry is deleted and misses; a hit becomes the most
\* recently used entry.  The result is [cache, hit, entry].
LruGet(c, key) ==
    IF CacheIndex(c, key) = {}
    THEN [cache |-> c, hit |-> FALSE, entry |-> [key |-> key, data |-> "none", tsAge |-> 0, age |-> 0]]
    ELSE LET i == CHOOSE j \in CacheIndex(c, key) : TRUE
             e == c[i]
         IN  IF LruIsStale(e)
             THEN [cache |-> CacheRemoveAt(c, i), hit |-> FALSE, entry |-> e]
             ELSE LET e2 == IF CacheOptions.updateAgeOnGet THEN [e EXCEPT !.age = 0] ELSE e
                  IN  [cache |-> Append(CacheRemoveAt(c, i), e2), hit |-> TRUE, entry |-> e2]

\* LRUCache.has: present and not stale; nothing moves.
LruHas(c, key) ==
    \E i \in CacheIndex(c, key) : ~LruIsStale(c[i])

\* LRUCache.set: replaces the key's entry or, at max entries, evicts the least
\* recently used one; the new entry is the most recently used and its ttl restarts.
LruSet(c, key, data) ==
    LET e == [key |-> key, data |-> data, tsAge |-> 0, age |-> 0] IN
    IF CacheIndex(c, key) # {}
    THEN Append(CacheRemoveAt(c, CHOOSE j \in CacheIndex(c, key) : TRUE), e)
    ELSE IF Len(c) >= CacheOptions.max
         THEN Append(Tail(c), e)
         ELSE Append(c, e)

\* A get that restarts the age of the entry it returns.
CacheGet_Touches(c, key) ==
    LET r == LruGet(c, key)
        e == [r.entry EXCEPT !.tsAge = 0, !.age = 0]
    IN  IF r.hit THEN [cache |-> Append(SubSeq(r.cache, 1, Len(r.cache) - 1), e),
                       hit |-> TRUE, entry |-> e]
        ELSE r

\* HarvestCache.get
CacheGet(c, key) == LruGet(c, key)

\* HarvestCache.set: the entry carries timestamp Date.now().
CacheSet(c, key, data) == LruSet(c, key, data)

\* HarvestCache.has
CacheHas(c, key) == LruHas(c, key)

\* HarvestCache.getAge: [cache, defined, seconds]; it reads through cache.get.
CacheGetAge(c, key) ==
    LET r == LruGet(c, key) IN
    [cache |-> r.cache, defined |-> r.hit,
     seconds |-> IF r.hit THEN r.entry.tsAge \div MsPerSecond ELSE 0]

\* HarvestCache.invalidate with a RegExp ^prefix: [cache, count].
CacheInvalidatePrefix(c, prefix) ==
    LET keep == SelectSeq(c, LAMBDA e : ~StartsWith(KeyString(e.key), prefix)) IN
    [cache |-> keep, count |-> Len(c) - Len(keep)]

\* A pattern handed to invalidate: a string, or a RegExp anchored at the start.
StringPattern(text) == [regexp |-> FALSE, text |-> text]
RegExpPattern(text) == [regexp |-> TRUE, text |-> text]

\* A test that anchors every pattern at the start of the key.
PatternMatches_AlwaysAnchored(pattern, key) == StartsWith(KeyString(key), pattern.text)

\* typeof pattern === 'string' ? key.includes(pattern) : pattern.test(key)
PatternMatches(pattern, key) ==
    IF pattern.regexp THEN StartsWith(KeyString(key), pattern.text)
    ELSE Includes(KeyString(key), pattern.text)

\* HarvestCache.invalidate: [cache, count].
CacheInvalidate(c, pattern) ==
    LET keep == SelectSeq(c, LAMBDA e : ~PatternMatches(pattern, e.key)) IN
    [cache |-> keep, count |-> Len(c) - Len(keep)]

\* HarvestCache.clear
CacheClear(c) == <<>>

\* HarvestCache.getStats: { ...this.stats, size: this.cache.size }; the size it
\* reports is the LRUCache's, whatever set, invalidate and clear left in stats.size.
CacheGetStats(c) == [size |-> Len(c)]

\* --------------------------------------------------- calls on the cache
VARIABLES
    probe,     \* the last call made on the cache directly, and what it returned
    written,   \* per key: whether it was ever set, the time since its last set, the data set
    recency    \* the keys set or returned by the direct calls, least recently used first

probeVars == <<probe, written, recency>>

\* The keys and the data of the direct calls.
ProbeKeys ==
    { GenerateKey(PathC, NoParams), GenerateKey(PathCs, NoParams), GenerateKey(PathP, NoParams) }
ProbeData == {"d1", "d2"}

NoProbe ==
    [op |-> "none", key |-> GenerateKey(PathC, NoParams), hit |-> FALSE, data |-> "none",
     seconds |-> 0, wasSet |-> FALSE, since |-> 0, setData |-> "none", afterSet |-> FALSE,
     count |-> 0, size |-> 0, dropped |-> <<>>]

NeverWritten == [set |-> FALSE, age |-> 0, data |-> "none"]

\* What a read of key observes of the key's history: the last set and whether
\* the read follows it with nothing but reads of the key in between, at once.
ProbeOf(op, key) ==
    [NoProbe EXCEPT !.op = op, !.key = key,
                    !.wasSet = written[key].set,
                    !.since = written[key].age,
                    !.setData = written[key].data,
                    !.afterSet = /\ written[key].set
                                 /\ written[key].age = 0
                                 /\ probe.key = key
                                 /\ probe.op = "set" \/ probe.afterSet]

\* The key becomes the most recently used one.
Used(r, key) == Append(SelectSeq(r, LAMBDA k : k # key), key)

\* The patterns of the direct calls: the strings /c and cs, the RegExp ^/p.
Patterns == { StringPattern(PathC), StringPattern(<<"c", "s">>), RegExpPattern(PathP) }

\* The entries of c, other than key's, that are no longer in d.
Dropped(c, d, key) ==
    SelectSeq(c, LAMBDA e : e.key # key /\ \A i \in 1 .. Len(d) : d[i].key # e.key)

\* cache.set(key, data)
SetOp(key, data) ==
    /\ cache' = CacheSet(cache, key, data)
    /\ recency' = Used(recency, key)
    /\ written' = [written EXCEPT ![key] = [set |-> TRUE, age |-> 0, data |-> data]]
    /\ probe' = [NoProbe EXCEPT !.op = "set", !.key = key, !.data = data,
                                !.dropped = Dropped(cache, CacheSet(cache, key, data), key)]

\* cache.get(key)
GetOp(key) ==
    LET r == CacheGet(cache, key) IN
    /\ cache' = r.cache
    /\ probe' = [ProbeOf("get", key) EXCEPT !.hit = r.hit,
                                            !.data = IF r.hit THEN r.entry.data ELSE "none"]
    /\ recency' = IF r.hit THEN Used(recency, key) ELSE recency
    /\ UNCHANGED written

\* cache.has(key)
HasOp(key) ==
    /\ probe' = [ProbeOf("has", key) EXCEPT !.hit = CacheHas(cache, key)]
    /\ UNCHANGED <<cache, written, recency>>

\* cache.getAge(key)
GetAgeOp(key) ==
    LET r == CacheGetAge(cache, key) IN
    /\ cache' = r.cache
    /\ probe' = [ProbeOf("getAge", key) EXCEPT !.hit = r.defined, !.seconds = r.seconds]
    /\ recency' = IF r.defined THEN Used(recency, key) ELSE recency
    /\ UNCHANGED written

\* cache.invalidate(pattern)
InvalidateOp(pattern) ==
    LET r == CacheInvalidate(cache, pattern) IN
    /\ cache' = r.cache
    /\ probe' = [NoProbe EXCEPT !.op = "invalidate", !.count = r.count]
    /\ UNCHANGED <<written, recency>>

\* cache.clear()
ClearOp ==
    /\ cache' = CacheClear(cache)
    /\ probe' = [NoProbe EXCEPT !.op = "clear"]
    /\ UNCHANGED <<written, recency>>

\* cache.getStats()
GetStatsOp ==
    /\ probe' = [NoProbe EXCEPT !.op = "getStats", !.size = CacheGetStats(cache).size]
    /\ UNCHANGED <<cache, written, recency>>

\* ---------------------------------------------------- HarvestClient.request
VARIABLES
    task,                 \* each request task: its arguments, its place in request, its result
    apiCallsThisRequest   \* HarvestClient.apiCallsThisRequest, of each task's client

clientVars == <<task, apiCallsThisRequest>>

Request(method, path, params, skipCache) ==
    [method |-> method, path |-> path, params |-> params, skipCache |-> skipCache]

\* The calls the tasks of the model make.
Requests ==
    { Request("GET", PathC, NoParams, FALSE),
      Request("GET", PathC1, Params(<< <<"a", "1">> >>), FALSE),
      Request("GET", PathP, NoParams, TRUE),
      Request("DELETE", PathC1, NoParams, FALSE),
      Request("POST", PathP, NoParams, FALSE) }

\* What the upstream can answer to one send.
NoHeader == [present |-> FALSE, seconds |-> 0]
Header(n) == [present |-> TRUE, seconds |-> n]
Http(status, retryAfter, body) ==
    [kind |-> "http", status |-> status, retryAfter |-> retryAfter, body |-> body]
Responses ==
    { Http(429, NoHeader, "none"), Http(429, Header(1), "none"),
      Http(404, NoHeader, "e1"), Http(500, NoHeader, "e2"),
      Http(204, NoHeader, "none"),
      Http(200, NoHeader, "d1"), Http(200, NoHeader, "d2"),
      Http(200, NoHeader, "notjson"),
      [kind |-> "neterr", status |-> 0, retryAfter |-> NoHeader, body |-> "none"] }

\* response.ok
ResponseOk(resp) == resp.status >= 200 /\ resp.status <= 299

\* A client that does not read the header.
RetryAfterSeconds_IgnoresHeader(resp) == DefaultRetryAfter

\* parseInt(response.headers.get('Retry-After') || '15', 10)
RetryAfterSeconds(resp) ==
    IF resp.retryAfter.present THEN resp.retryAfter.seconds ELSE DefaultRetryAfter

\* Errors; `at` is the attempt that raised it (each attempt raises its own object).
NoError == [name |-> "none", statusCode |-> 0, errorBody |-> "none", at |-> 0]
HarvestApiError(statusCode, errorBody, at) ==
    [name |-> "HarvestApiError", statusCode |-> statusCode, errorBody |-> errorBody, at |-> at]
\* What fetch rejects with, and what response.json() throws.
FetchError(at) == [name |-> "TypeError", statusCode |-> 0, errorBody |-> "none", at |-> at]
JsonError(at) == [name |-> "SyntaxError", statusCode |-> 0, errorBody |-> "none", at |-> at]
\* new Error('Request failed after retries')
RetriesError == [name |-> "Error", statusCode |-> 0, errorBody |-> "none", at |-> 0]

\* A catch block that retries after every error.
IsFatal_Never(err) == FALSE

\* A catch block that retries after a 429 only.
IsFatal_UnlessRateLimited(err) == err.statusCode # 429

\* error instanceof HarvestApiError && !error.isRateLimited
IsFatal(err) == err.name = "HarvestApiError" /\ err.statusCode # 429

NoResult == [state |-> "none", data |-> "none", cached |-> FALSE,
             ageDefined |-> FALSE, cacheAge |-> 0, error |-> NoError]
Returned(data, cached, ageDefined, cacheAge) ==
    [state |-> "returned", data |-> data, cached |-> cached,
     ageDefined |-> ageDefined, cacheAge |-> cacheAge, error |-> NoError]
Thrown(err) ==
    [state |-> "thrown", data |-> "none", cached |-> FALSE,
     ageDefined |-> FALSE, cacheAge |-> 0, error |-> err]

IdleTask ==
    [pc |-> "idle", req |-> Request("GET", PathC, NoParams, FALSE), attempt |-> 0,
     waitMs |-> 0, timer |-> 0, lastError |-> NoError, result |-> NoResult,
     sends |-> 0, resp |-> Http(0, NoHeader, "none"), calls |-> 0]

\* const isGetRequest = method === 'GET'
IsGetRequest(req) == req.method = "GET"

\* A cache test that forgets skipCache.
UsesCache_IgnoresSkipCache(req) == IsGetRequest(req)

\* isGetRequest && this.cache && !skipCache
UsesCache(req) == IsGetRequest(req) /\ ~req.skipCache

\* path.split('/')[1], and the pattern new RegExp(`^/${resourceType}`)
ResourceType(path) == IF Len(Split(path, Slash)) >= 2 THEN Split(path, Slash)[2] ELSE <<>>
ResourcePattern(path) == <<Slash>> \o ResourceType(path)

\* A loop test that is off by one.
AttemptsLeft_OneMore(attempt) == attempt <= MaxRetries

\* attempt < maxRetries
AttemptsLeft(attempt) == attempt < MaxRetries

\* The head of the retry loop, for (...; attempt < maxRetries; ...): either the
\* next attempt calls acquirePermit, or the loop ends and lastError is thrown.
EnterAttempt(t, tk) ==
    IF AttemptsLeft(tk.attempt)
    THEN LET cleaned == CleanOldTimestamps(requestTimestamps) IN
         /\ requestTimestamps' = cleaned
         /\ task' = [task EXCEPT ![t] =
                [tk EXCEPT !.pc = "permit", !.waitMs = PermitWait(cleaned, retryAfterLeft)]]
    ELSE /\ requestTimestamps' = requestTimestamps
         /\ task' = [task EXCEPT ![t] =
                [tk EXCEPT !.pc = "failed",
                           !.result = Thrown(IF tk.lastError = NoError THEN RetriesError
                                             ELSE tk.lastError)]]

\* request(...) is called: the cache lookup and, on a miss, the first acquirePermit.
BeginRequest(t, req) ==
    /\ task[t].pc \in {"idle", "done", "failed"}
    /\ task[t].calls < MaxCalls
    /\ LET tk == [IdleTask EXCEPT !.req = req, !.calls = task[t].calls + 1]
           key == GenerateKey(req.path, req.params)
           got == CacheGet(cache, key)
           age == CacheGetAge(got.cache, key)
       IN  IF UsesCache(req) /\ got.hit
           THEN /\ cache' = age.cache
                /\ task' = [task EXCEPT ![t] =
                       [tk EXCEPT !.pc = "done",
                                  !.result = Returned(got.entry.data, TRUE, age.defined, age.seconds)]]
                /\ UNCHANGED requestTimestamps
           ELSE /\ cache' = IF UsesCache(req) THEN got.cache ELSE cache
                /\ EnterAttempt(t, tk)

\* A call of request on its own: it does not touch the embargo or the counter.
StartRequest(t, req) ==
    /\ BeginRequest(t, req)
    /\ UNCHANGED <<retryAfterLeft, apiCallsThisRequest>>

\* The step sends a request of task t upstream.
Sends(t) == task'[t].pc = "fetch" /\ task[t].pc # "fetch"

\* A send that leaves no timestamp in the limiter.
Send_WithoutRecord(t) ==
    /\ requestTimestamps' = requestTimestamps
    /\ apiCallsThisRequest' = [apiCallsThisRequest EXCEPT ![t] = @ + 1]
    /\ task' = [task EXCEPT ![t].pc = "fetch", ![t].sends = @ + 1]

\* recordRequest(); apiCallsThisRequest++; fetch(...)
Send(t) ==
    /\ requestTimestamps' = RecordRequest(requestTimestamps)
    /\ apiCallsThisRequest' = [apiCallsThisRequest EXCEPT ![t] = @ + 1]
    /\ task' = [task EXCEPT ![t].pc = "fetch", ![t].sends = @ + 1]

\* acquirePermit has resolved: if (waitMs > 0) await this.delay(waitMs), else send.
PermitResolved(t) ==
    /\ task[t].pc = "permit"
    /\ IF task[t].waitMs > 0
       THEN /\ task' = [task EXCEPT ![t].pc = "delay", ![t].timer = task[t].waitMs]
            /\ UNCHANGED <<requestTimestamps, apiCallsThisRequest>>
       ELSE Send(t)
    /\ UNCHANGED <<retryAfterLeft, cache>>

\* The delay before the send has elapsed.
DelayElapsed(t) ==
    /\ task[t].pc = "delay"
    /\ task[t].timer = 0
    /\ Send(t)
    /\ UNCHANGED <<retryAfterLeft, cache>>

\* catch (error): a HarvestApiError that is not a 429 is thrown on; any other
\* error becomes lastError and the loop goes on with the next attempt.
Catch(t, tk, err) ==
    IF IsFatal(err)
    THEN /\ task' = [task EXCEPT ![t] = [tk EXCEPT !.pc = "failed", !.result = Thrown(err)]]
         /\ UNCHANGED requestTimestamps
    ELSE EnterAttempt(t, [tk EXCEPT !.lastError = err, !.attempt = @ + 1])

\* fetch has settled with resp (a response whose body has been read, or a rejection).
Receive(t, resp) ==
    /\ task[t].pc = "fetch"
    /\ LET tk == [task[t] EXCEPT !.resp = resp]
           req == tk.req
           at == tk.attempt
       IN
       IF resp.kind = "neterr"
       THEN /\ Catch(t, tk, FetchError(at))
            /\ UNCHANGED <<retryAfterLeft, cache>>
       ELSE IF resp.status = 429
       THEN /\ retryAfterLeft' = HandleRateLimit(RetryAfterSeconds(resp))
            /\ task' = [task EXCEPT ![t] =
                   [tk EXCEPT !.pc = "retryDelay",
                              !.lastError = HarvestApiError(429, "none", at),
                              !.timer = RetryAfterSeconds(resp) * MsPerSecond]]
            /\ UNCHANGED <<requestTimestamps, cache>>
       ELSE IF ~ResponseOk(resp)
       THEN /\ Catch(t, tk, HarvestApiError(resp.status, resp.body, at))
            /\ UNCHANGED <<retryAfterLeft, cache>>
       ELSE IF resp.status = 204
       THEN /\ task' = [task EXCEPT ![t] =
                   [tk EXCEPT !.pc = "done", !.result = Returned("undefined", FALSE, FALSE, 0)]]
            /\ UNCHANGED <<requestTimestamps, retryAfterLeft, cache>>
       ELSE IF resp.body = "notjson"
       THEN /\ Catch(t, tk, JsonError(at))
            /\ UNCHANGED <<retryAfterLeft, cache>>
       ELSE /\ cache' =
                IF UsesCache(req)
                THEN CacheSet(cache, GenerateKey(req.path, req.params), resp.body)
                ELSE IF ~IsGetRequest(req) /\ ResourceType(req.path) # <<>>
                THEN CacheInvalidatePrefix(cache, ResourcePattern(req.path)).cache
                ELSE cache
            /\ task' = [task EXCEPT ![t] =
                   [tk EXCEPT !.pc = "done", !.result = Returned(resp.body, FALSE, FALSE, 0)]]
            /\ UNCHANGED <<requestTimestamps, retryAfterLeft>>
    /\ UNCHANGED apiCallsThisRequest

\* The delay after a 429 has elapsed: continue with the next attempt.
RetryDelayElapsed(t) ==
    /\ task[t].pc = "retryDelay"
    /\ task[t].timer = 0
    /\ EnterAttempt(t, [task[t] EXCEPT !.attempt = @ + 1])
    /\ UNCHANGED <<retryAfterLeft, cache, apiCallsThisRequest>>

\* ------------------------------------------------ HarvestClient.autoPaginate
\* The largest maxPages, perPage and number of upstream entries of the model.
MaxPagesBound == 3
MaxPerPage == 2
MaxEntries == 5

VARIABLES
    pg   \* one autoPaginate call over a list endpoint: its options, its locals, its result

pgVars == <<pg>>

\* The list endpoint behind the `endpoint` closure: entries 1 .. total, served
\* per_page at a time.
CeilDiv(a, b) == (a + b - 1) \div b
SourceTotalPages(total, perPage) == CeilDiv(total, perPage)
SourceItems(total, page, perPage) ==
    [i \in 1 .. Max(0, Min(perPage, total - (page - 1) * perPage)) |-> (page - 1) * perPage + i]
SourcePage(total, page, perPage) ==
    [items |-> SourceItems(total, page, perPage),
     total_entries |-> total,
     total_pages |-> SourceTotalPages(total, perPage),
     next_page |-> IF page < SourceTotalPages(total, perPage) THEN page + 1 ELSE 0]

\* A loop that does not stop at the last page.
NextPageIsNull_Never(response) == FALSE

\* next_page === null
NextPageIsNull(response) == response.next_page = 0

NoPageResult ==
    [state |-> "none", items |-> <<>>, total_entries |-> 0, pages_fetched |-> 0,
     error |-> "none"]
\* The errors a page fetch can fail with.
PageErrors == {"e1", "e2"}

IdlePaginate ==
    [pc |-> "idle", maxPages |-> 0, perPage |-> 0, source |-> 0,
     allItems |-> <<>>, page |-> 0, totalEntries |-> 0, totalPages |-> 0,
     requested |-> <<>>, received |-> 0, rejected |-> "none", result |-> NoPageResult]

\* while (page <= maxPages && page <= totalPages)
LoopContinues(p) == p.page <= p.maxPages /\ p.page <= p.totalPages

\* return { items: allItems, total_entries: totalEntries, pages_fetched: page, ... }
PageResult(p) ==
    [state |-> "returned", items |-> p.allItems, total_entries |-> p.totalEntries,
     pages_fetched |-> p.page, error |-> "none"]

\* The head of the loop: the next page is requested, or the loop ends and the
\* result is returned.
LoopHead(p) ==
    IF LoopContinues(p)
    THEN [p EXCEPT !.pc = "await", !.requested = Append(@, p.page)]
    ELSE [p EXCEPT !.pc = "done", !.result = PageResult(p)]

\* autoPaginate(endpoint, params, {maxPages, perPage}) is called on a source of
\* `total` entries.
PaginateStart(maxPages, perPage, total) ==
    /\ pg.pc = "idle"
    /\ pg' = LoopHead([IdlePaginate EXCEPT !.maxPages = maxPages, !.perPage = perPage,
                                           !.source = total, !.page = 1, !.totalPages = 1])

\* A loop body that puts the items of a page in front of those it has.
AfterPage_Prepends(p, response) ==
    LET got == [p EXCEPT !.allItems = response.items \o @,
                         !.totalEntries = response.total_entries,
                         !.totalPages = response.total_pages,
                         !.received = @ + 1]
    IN  IF NextPageIsNull(response)
        THEN [got EXCEPT !.pc = "done", !.result = PageResult(got)]
        ELSE LoopHead([got EXCEPT !.page = @ + 1])

\* The body of the loop once the page has arrived.
AfterPage(p, response) ==
    LET got == [p EXCEPT !.allItems = @ \o response.items,
                         !.totalEntries = response.total_entries,
                         !.totalPages = response.total_pages,
                         !.received = @ + 1]
    IN  IF NextPageIsNull(response)
        THEN [got EXCEPT !.pc = "done", !.result = PageResult(got)]
        ELSE LoopHead([got EXCEPT !.page = @ + 1])

\* await endpoint({...params, page, per_page: perPage}) resolves.
PageReceived ==
    /\ pg.pc = "await"
    /\ pg' = AfterPage(pg, SourcePage(pg.source, pg.page, pg.perPage))

\* A loop that swallows the rejection and returns what it has.
PageFailed_ReturnsPartial(err) ==
    /\ pg.pc = "await"
    /\ pg' = [pg EXCEPT !.pc = "done", !.rejected = err, !.result = PageResult(pg)]

\* await endpoint(...) rejects with err: the error leaves autoPaginate.
PageFailed(err) ==
    /\ pg.pc = "await"
    /\ pg' = [pg EXCEPT !.pc = "failed", !.rejected = err,
                        !.result = [NoPageResult EXCEPT !.state = "thrown", !.error = err]]

\* ------------------------------------------------ HarvestClient.get, _meta
VARIABLES
    call   \* one get or autoPaginate call on the client: its place, its loop
           \*   locals, what it returned with its _meta, and the upstream sends
           \*   made through the client since its counter was last reset (sent)
           \*   and since the call began (own)

callVars == <<call>>

NoMeta ==
    [api_calls_made |-> 0, cached |-> FALSE, rate_limit_remaining |-> 0,
     ageDefined |-> FALSE, cache_age_seconds |-> 0]

\* A reset that leaves the counter as it is.
ResetApiCallCount_Keeps(count) == count

\* resetApiCallCount: this.apiCallsThisRequest = 0
ResetApiCallCount(count) == 0

\* buildMeta(cached, cacheAge), with the status the limiter returned.
BuildMeta(count, status, cached, ageDefined, cacheAge) ==
    [api_calls_made |-> count, cached |-> cached, rate_limit_remaining |-> status.remaining,
     ageDefined |-> ageDefined, cache_age_seconds |-> IF ageDefined THEN cacheAge ELSE 0]

IdleCall ==
    [pc |-> "idle", op |-> "none", maxPages |-> 0, source |-> 0, page |-> 0, totalPages |-> 0,
     state |-> "none", data |-> "none", pages_fetched |-> 0, meta |-> NoMeta,
     sent |-> 0, own |-> 0]

\* The list endpoint of the paginated calls: endpoint({...params, page, per_page}).
PageText == <<"1", "2", "3", "4">>
PageRequest(page) == Request("GET", PathCs, Params(<< <<"a", PageText[page]>> >>), FALSE)

\* A step of the client's request is seen: a send adds one to both tallies.
CountSends(t) ==
    call' = IF Sends(t) THEN [call EXCEPT !.sent = @ + 1, !.own = @ + 1] ELSE call

\* client.get(path, params) / post(path, body) is called: request is entered.
GetCalled(t, req) ==
    /\ call.pc \in {"idle", "done", "failed"}
    /\ call' = [IdleCall EXCEPT !.pc = "get", !.op = "get", !.sent = call.sent]
    /\ StartRequest(t, req)

\* request has settled: get returns {...result.data, _meta: buildMeta(cached,
\* cacheAge)}, or the rejection leaves get and, from a page, autoPaginate.
GetSettled(t) ==
    /\ call.pc \in {"get", "pageGet"}
    /\ task[t].pc \in {"done", "failed"}
    /\ IF task[t].pc = "failed"
       THEN /\ call' = [call EXCEPT !.pc = "failed", !.state = "thrown"]
            /\ UNCHANGED requestTimestamps
       ELSE LET cleaned == CleanOldTimestamps(requestTimestamps)
                result == task[t].result
                meta == BuildMeta(apiCallsThisRequest[t], GetStatus(cleaned, retryAfterLeft),
                                  result.cached, result.ageDefined, result.cacheAge)
            IN  /\ requestTimestamps' = cleaned
                /\ call' = IF call.pc = "get"
                           THEN [call EXCEPT !.pc = "done", !.state = "returned",
                                             !.data = result.data, !.meta = meta]
                           ELSE [call EXCEPT !.pc = "page", !.data = result.data, !.meta = meta]
    /\ UNCHANGED <<retryAfterLeft, cache, task, apiCallsThisRequest>>

\* client.autoPaginate(endpoint, params, {maxPages}) is called on a list of
\* `source` pages: the counter is reset and page 1 is requested.
AutoPaginateCalled(t, maxPages, source) ==
    /\ call.pc \in {"idle", "done", "failed"}
    /\ apiCallsThisRequest' = [apiCallsThisRequest EXCEPT ![t] = ResetApiCallCount(@)]
    /\ call' = [IdleCall EXCEPT !.pc = "pageGet", !.op = "autoPaginate", !.maxPages = maxPages,
                                !.source = source, !.page = 1, !.totalPages = 1]
    /\ BeginRequest(t, PageRequest(1))
    /\ UNCHANGED retryAfterLeft

\* await endpoint(...) has resolved: the body of the loop, then the next page is
\* requested or the result is returned with buildMeta(false).
AutoPaginateResumes(t) ==
    /\ call.pc = "page"
    /\ LET nextPageIsNull == call.page >= call.source
           got == [call EXCEPT !.totalPages = call.source]
           next == [got EXCEPT !.page = @ + 1]
           after == IF nextPageIsNull THEN got ELSE next
       IN  IF ~nextPageIsNull /\ next.page <= next.maxPages /\ next.page <= next.totalPages
           THEN /\ call' = [next EXCEPT !.pc = "pageGet"]
                /\ BeginRequest(t, PageRequest(next.page))
                /\ UNCHANGED <<retryAfterLeft, apiCallsThisRequest>>
           ELSE LET cleaned == CleanOldTimestamps(requestTimestamps) IN
                /\ requestTimestamps' = cleaned
                /\ call' = [after EXCEPT
                               !.pc = "done", !.state = "returned", !.pages_fetched = after.page,
                               !.meta = BuildMeta(apiCallsThisRequest[t],
                                                  GetStatus(cleaned, retryAfterLeft),
                                                  FALSE, FALSE, 0)]
                /\ UNCHANGED <<retryAfterLeft, cache, task, apiCallsThisRequest>>

\* ------------------------------------------------- keys of two requests
VARIABLES
    keyed   \* two GET requests: their paths and params, their cache keys and URLs,
            \*   and whether the second is served the entry the first stored

keyVars == <<keyed>>

\* The params objects of the two requests: absent, empty, and a and b in both
\* orders, b also undefined.
ParamSets ==
    { NoParams, Params(<<>>),
      Params(<< <<"a", "1">> >>), Params(<< <<"a", "2">> >>),
      Params(<< <<"a", "1">>, <<"b", "2">> >>), Params(<< <<"b", "2">>, <<"a", "1">> >>),
      Params(<< <<"a", "1">>, <<"b", "undefined">> >>),
      Params(<< <<"b", "undefined">>, <<"a", "1">> >>) }

\* The query of the URL: if (value !== undefined) url.searchParams.set(key, String(value))
UrlQuery(params) ==
    IF params.defined THEN SelectSeq(params.entries, LAMBDA e : e[2] # "undefined") ELSE <<>>

\* new URL(`${this.baseUrl}${path}`) with its query.
Url(path, params) == [path |-> path, query |-> UrlQuery(params)]

NotKeyed ==
    [done |-> FALSE, path1 |-> PathC, params1 |-> NoParams, path2 |-> PathC, params2 |-> NoParams,
     key1 |-> GenerateKey(PathC, NoParams), key2 |-> GenerateKey(PathC, NoParams),
     url1 |-> Url(PathC, NoParams), url2 |-> Url(PathC, NoParams), served |-> FALSE]

\* Two GET requests on an empty cache, the second after the first has stored its
\* response: the keys request generates for them, the URLs it builds, and
\* whether the lookup of the second finds the entry of the first.
KeyTwoRequests(path1, params1, path2, params2) ==
    LET key1 == GenerateKey(path1, params1)
        key2 == GenerateKey(path2, params2)
    IN  /\ keyed' = [done |-> TRUE, path1 |-> path1, params1 |-> params1,
                     path2 |-> path2, params2 |-> params2,
                     key1 |-> key1, key2 |-> key2,
                     url1 |-> Url(path1, params1), url2 |-> Url(path2, params2),
                     served |-> CacheGet(CacheSet(<<>>, key1, "d1"), key2).hit]

\* ------------------------------------------------------ EntityResolver
\* COMPANY_SUFFIXES: for each pattern /\s+(...)$/i, the texts its group matches
\* in text already lower-cased.
COMPANY_SUFFIXES ==
    << {<<"i", "n", "c">>, <<"i", "n", "c", ".">>, <<"i", "n", "c", "o", "r", "p", "o", "r", "a", "t", "e", "d">>},
       {<<"l", "l", "c">>, <<"l", ".", "l", ".", "c", ".">>},
       {<<"l", "t", "d">>, <<"l", "t", "d", ".">>, <<"l", "i", "m", "i", "t", "e", "d">>},
       {<<"c", "o", "r", "p">>, <<"c", "o", "r", "p", ".">>, <<"c", "o", "r", "p", "o", "r", "a", "t", "i", "o", "n">>},
       {<<"c", "o">>, <<"c", "o", ".">>, <<"c", "o", "m", "p", "a", "n", "y">>},
       {<<"p", "l", "c">>},
       {<<"g", "m", "b", "h">>},
       {<<"a", "g">>} >>

UpperCase == <<"A", "B", "C", "D", "E", "F", "G", "H", "I", "J", "K", "L", "M", "N", "O", "P", "Q", "R", "S", "T", "U", "V", "W", "X", "Y", "Z">>
LowerCase == <<"a", "b", "c", "d", "e", "f", "g", "h", "i", "j", "k", "l", "m", "n", "o", "p", "q", "r", "s", "t", "u", "v", "w", "x", "y", "z">>

\* String.prototype.toLowerCase
ToLowerChar(ch) ==
    IF \E i \in 1 .. Len(UpperCase) : UpperCase[i] = ch
    THEN LowerCase[CHOOSE i \in 1 .. Len(UpperCase) : UpperCase[i] = ch]
    ELSE ch
ToLowerCase(s) == [i \in 1 .. Len(s) |-> ToLowerChar(s[i])]

\* \s
IsSpace(ch) == ch \in {" ", "\t", "\n"}

\* String.prototype.trim
RECURSIVE TrimStart(_)
TrimStart(s) == IF s # <<>> /\ IsSpace(Head(s)) THEN TrimStart(Tail(s)) ELSE s
RECURSIVE TrimEnd(_)
TrimEnd(s) ==
    IF s # <<>> /\ IsSpace(s[Len(s)]) THEN TrimEnd(SubSeq(s, 1, Len(s) - 1)) ELSE s
Trim(s) == TrimEnd(TrimStart(s))

\* s.replace(/\s+(...)$/i, ''): the leftmost place from which white space and
\* then one of the texts run to the end of s.
SuffixStarts(s, texts) ==
    {k \in 1 .. Len(s) :
        \E j \in k .. Len(s) :
            /\ \A i \in k .. j : IsSpace(s[i])
            /\ SubSeq(s, j + 1, Len(s)) \in texts}
RemoveSuffix(s, texts) ==
    LET starts == SuffixStarts(s, texts)
    IN  IF starts = {} THEN s
        ELSE SubSeq(s, 1, (CHOOSE k \in starts : \A l \in starts : k <= l) - 1)

\* for (const suffix of COMPANY_SUFFIXES) normalized = normalized.replace(suffix, '')
RECURSIVE RemoveSuffixes(_, _)
RemoveSuffixes(s, i) ==
    IF i > Len(COMPANY_SUFFIXES) THEN s
    ELSE RemoveSuffixes(RemoveSuffix(s, COMPANY_SUFFIXES[i]), i + 1)

\* s.replace(/\s+/g, ' ')
RECURSIVE CollapseSpaces(_)
CollapseSpaces(s) ==
    IF s = <<>> THEN <<>>
    ELSE IF IsSpace(Head(s)) THEN <<" ">> \o CollapseSpaces(TrimStart(s))
    ELSE <<Head(s)>> \o CollapseSpaces(Tail(s))

\* s.replace(/[.,'"]/g, '')
RemovePunctuation(s) == SelectSeq(s, LAMBDA ch : ch \notin {".", ",", "'", "\""})

\* EntityResolver.normalize
Normalize(text) ==
    RemovePunctuation(Trim(CollapseSpaces(RemoveSuffixes(Trim(ToLowerCase(text)), 1))))

\* One row of the matrix of levenshteinDistance: row i from row i - 1 (prev) and
\* b.charAt(i - 1); at is the inner loop's position, its index j and the row so far.
RECURSIVE LevenshteinRow(_, _, _, _)
LevenshteinRow(prev, bch, a, at) ==
    IF at.j > Len(a) THEN at.row
    ELSE LET cell == IF bch = a[at.j] THEN prev[at.j]
                     ELSE Min(prev[at.j] + 1, Min(at.row[at.j] + 1, prev[at.j + 1] + 1))
         IN  LevenshteinRow(prev, bch, a, [j |-> at.j + 1, row |-> Append(at.row, cell)])

\* The outer loop of levenshteinDistance: at is its index i and row i - 1.
RECURSIVE LevenshteinRows(_, _, _)
LevenshteinRows(a, b, at) ==
    IF at.i > Len(b) THEN at.prev
    ELSE LevenshteinRows(a, b,
             [i |-> at.i + 1,
              prev |-> LevenshteinRow(at.prev, b[at.i], a, [j |-> 1, row |-> <<at.i>>])])

\* EntityResolver.levenshteinDistance: matrix[b.length][a.length]; a row of the
\* matrix is a sequence whose element j + 1 is matrix[i][j].
LevenshteinDistance(a, b) ==
    LevenshteinRows(a, b, [i |-> 1, prev |-> [j \in 1 .. Len(a) + 1 |-> j - 1]])[Len(a) + 1]

\* A score: the number num / den (the code's floating-point number, exactly).
Score(num, den) == [num |-> num, den |-> den]
ScoreGeq(x, y) == x.num * y.den >= y.num * x.den
ScoreEq(x, y) == x.num * y.den = y.num * x.den

\* EntityResolver.calculateSimilarity: { score, matchType }
CalculateSimilarity(query, target) ==
    LET normalizedQuery == Normalize(query)
        normalizedTarget == Normalize(target)
        minLength == Min(Len(normalizedQuery), Len(normalizedTarget))
        maxLength == Max(Len(normalizedQuery), Len(normalizedTarget))
        distance == LevenshteinDistance(normalizedQuery, normalizedTarget)
    IN  IF ToLowerCase(query) = ToLowerCase(target)
        THEN [score |-> Score(1, 1), matchType |-> "exact"]
        ELSE IF normalizedQuery = normalizedTarget
        THEN [score |-> Score(95, 100), matchType |-> "normalized"]
        ELSE IF \/ Includes(normalizedTarget, normalizedQuery)
                \/ Includes(normalizedQuery, normalizedTarget)
        THEN [score |-> Score(7 * maxLength + 2 * minLength, 10 * maxLength),
              matchType |-> "partial"]
        ELSE [score |-> Score(Max(0, maxLength - distance), maxLength), matchType |-> "fuzzy"]

\* Math.max on scores.
ScoreMax(x, y) == IF ScoreGeq(x, y) THEN x ELSE y

\* The defaults of resolve: limit = 5, min_confidence = 0.5 and all four types.
DefaultLimit == 5
DefaultMinConfidence == Score(1, 2)
DefaultTypes == <<"client", "project", "user", "task">>
\* per_page: 100 of the four list calls of refreshCache.
DirectoryPerPage == 100
\* EntityResolver.cacheMaxAge of the resolver under test, in ticks of the model.
CacheMaxAge == 2 * TickMs

\* EntityResolutionParams: query, and types, min_confidence and limit when given.
Undefined == [defined |-> FALSE, value |-> 0]
Given(value) == [defined |-> TRUE, value |-> value]
ResolveParams(query, types, min_confidence, limit) ==
    [query |-> query, types |-> types, min_confidence |-> min_confidence, limit |-> limit]

\* A directory record of the upstream, and the records a list call returns:
\* the first page of per_page records, of the active ones where is_active: true is asked.
ClientRecord(id, name) == [id |-> id, name |-> name, is_active |-> TRUE]
ProjectRecord(id, name, client_id, client_name, is_active) ==
    [id |-> id, name |-> name, client |-> [id |-> client_id, name |-> client_name],
     is_active |-> is_active]
UserRecord(id, first_name, last_name, is_active) ==
    [id |-> id, first_name |-> first_name, last_name |-> last_name, is_active |-> is_active]
TaskRecord(id, name, is_active) == [id |-> id, name |-> name, is_active |-> is_active]
FirstPage(records, perPage) == SubSeq(records, 1, Min(Len(records), perPage))
ActiveOnly(records) == SelectSeq(records, LAMBDA r : r.is_active)

\* ResolvedEntity; parent_id and parent_name are set for projects only.
Entity(type, id, name, confidence, match_type, parent_id, parent_name) ==
    [type |-> type, id |-> id, name |-> name, confidence |-> confidence,
     match_type |-> match_type, parent_id |-> parent_id, parent_name |-> parent_name]

\* CachedEntityList built by refreshCache from the four responses.
NoSnapshot ==
    [present |-> FALSE, clients |-> <<>>, projects |-> <<>>, users |-> <<>>, tasks |-> <<>>,
     age |-> 0]
SnapshotOf(upstream) ==
    LET clientsRes == FirstPage(upstream.clients, DirectoryPerPage)
        projectsRes == FirstPage(ActiveOnly(upstream.projects), DirectoryPerPage)
        usersRes == FirstPage(ActiveOnly(upstream.users), DirectoryPerPage)
        tasksRes == FirstPage(ActiveOnly(upstream.tasks), DirectoryPerPage)
    IN  [present |-> TRUE,
         clients |-> [i \in 1 .. Len(clientsRes) |->
                         [id |-> clientsRes[i].id, name |-> clientsRes[i].name]],
         projects |-> [i \in 1 .. Len(projectsRes) |->
                          [id |-> projectsRes[i].id, name |-> projectsRes[i].name,
                           client_id |-> projectsRes[i].client.id,
                           client_name |-> projectsRes[i].client.name]],
         users |-> [i \in 1 .. Len(usersRes) |->
                       [id |-> usersRes[i].id,
                        name |-> usersRes[i].first_name \o <<" ">> \o usersRes[i].last_name]],
         tasks |-> [i \in 1 .. Len(tasksRes) |->
                       [id |-> tasksRes[i].id, name |-> tasksRes[i].name]],
         age |-> 0]

\* EntityResolver.isCacheValid
IsCacheValid(snapshot) == snapshot.present /\ snapshot.age < CacheMaxAge

\* The entity resolve pushes for one record of the snapshot, and whether it does.
NameMatch(type, record, query) ==
    LET sim == CalculateSimilarity(query, record.name) IN
    Entity(type, record.id, record.name, sim.score, sim.matchType, 0, <<>>)
ProjectMatch(project, query) ==
    LET sim == CalculateSimilarity(query, project.name)
        fullName == project.client_name \o <<" ", "-", " ">> \o project.name
        full == CalculateSimilarity(query, fullName)
    IN  Entity("project", project.id, project.name, ScoreMax(sim.score, full.score),
               sim.matchType, project.client_id, project.client_name)

\* The loop over one list of the snapshot: the entities whose score reaches
\* min_confidence, in list order.
MatchesOf(type, records, query, min_confidence) ==
    LET all == [i \in 1 .. Len(records) |->
                   IF type = "project" THEN ProjectMatch(records[i], query)
                   ELSE NameMatch(type, records[i], query)]
    IN  SelectSeq(all, LAMBDA e : ScoreGeq(e.confidence, min_confidence))

\* types.includes(type)
TypesInclude(types, type) == \E i \in 1 .. Len(types) : types[i] = type

\* results.sort((a, b) => b.confidence - a.confidence): a stable sort.
\* A resolve that leaves the matches in the order of the search loops.
SortByConfidence_Unsorted(results) == results

RECURSIVE SortByConfidence(_)
SortByConfidence(results) ==
    IF results = <<>> THEN <<>>
    ELSE LET e == Head(results)
             rest == SortByConfidence(Tail(results))
             higher == SelectSeq(rest, LAMBDA x : ~ScoreGeq(e.confidence, x.confidence))
             others == SelectSeq(rest, LAMBDA x : ScoreGeq(e.confidence, x.confidence))
         IN  higher \o <<e>> \o others

\* The loop that keeps at most limit results of each type.
RECURSIVE LimitPerType(_, _, _)
LimitPerType(results, limit, kept) ==
    IF results = <<>> THEN kept
    ELSE LET e == Head(results)
             typeCount == Len(SelectSeq(kept, LAMBDA x : x.type = e.type))
         IN  LimitPerType(Tail(results), limit,
                          IF typeCount < limit THEN Append(kept, e) ELSE kept)

NoResolution ==
    [state |-> "none", query |-> <<>>, results |-> <<>>, total_matches |-> 0,
     cached |-> FALSE, search_types |-> <<>>, error |-> "none"]

\* The body of resolve after ensureCache: the EntityResolutionResponse.
Resolution(params, snapshot) ==
    LET types == IF params.types.defined THEN params.types.value ELSE DefaultTypes
        min_confidence == IF params.min_confidence.defined THEN params.min_confidence.value
                          ELSE DefaultMinConfidence
        limit == IF params.limit.defined THEN params.limit.value ELSE DefaultLimit
        wasCached == IsCacheValid(snapshot)
        search(type, records) ==
            IF TypesInclude(types, type)
            THEN MatchesOf(type, records, params.query, min_confidence)
            ELSE <<>>
        results == SortByConfidence(search("client", snapshot.clients)
                                    \o search("project", snapshot.projects)
                                    \o search("user", snapshot.users)
                                    \o search("task", snapshot.tasks))
    IN  [state |-> "returned", query |-> params.query,
         results |-> LimitPerType(results, limit, <<>>),
         total_matches |-> Len(results), cached |-> wasCached, search_types |-> types,
         error |-> "none"]

VARIABLES
    resolver   \* one EntityResolver: its snapshot (this.cache), the resolve call in
               \*   progress or ended, whether that call fetched, and what the
               \*   upstream held at the last fetch

resolverVars == <<resolver>>

NoDirectory == [clients |-> <<>>, projects |-> <<>>, users |-> <<>>, tasks |-> <<>>]

IdleResolver ==
    [pc |-> "idle", snapshot |-> NoSnapshot,
     params |-> ResolveParams(<<>>, Undefined, Undefined, Undefined),
     fetched |-> FALSE, upstream |-> NoDirectory, result |-> NoResolution]

\* The errors a directory fetch can fail with.
RefreshErrors == {"e1", "e2"}

\* resolve(params) is called: ensureCache answers from a valid snapshot, or
\* starts refreshCache and its four list calls.
ResolveStart(params) ==
    /\ resolver.pc \in {"idle", "done", "failed"}
    /\ resolver' =
           IF IsCacheValid(resolver.snapshot)
           THEN [resolver EXCEPT !.pc = "done", !.params = params, !.fetched = FALSE,
                                 !.result = Resolution(params, resolver.snapshot)]
           ELSE [resolver EXCEPT !.pc = "refreshing", !.params = params, !.fetched = TRUE,
                                 !.result = NoResolution]

\* The four list calls have resolved on an upstream that holds `upstream`:
\* refreshCache stores the snapshot and resolve goes on with it.
RefreshDone(upstream) ==
    /\ resolver.pc = "refreshing"
    /\ LET snapshot == SnapshotOf(upstream) IN
       resolver' = [resolver EXCEPT !.pc = "done", !.snapshot = snapshot,
                                    !.upstream = upstream,
                                    !.result = Resolution(resolver.params, snapshot)]

\* A refresh that stores the lists that did arrive when another call rejects.
RefreshFailed_StoresPartial(err) ==
    /\ resolver.pc = "refreshing"
    /\ resolver' = [resolver EXCEPT !.pc = "failed",
                                    !.snapshot = [NoSnapshot EXCEPT !.present = TRUE],
                                    !.result = [NoResolution EXCEPT !.state = "thrown",
                                                                    !.error = err]]

\* One of the four list calls has rejected: Promise.all rejects, and the error
\* leaves refreshCache, ensureCache and resolve.
RefreshFailed(err) ==
    /\ resolver.pc = "refreshing"
    /\ resolver' = [resolver EXCEPT !.pc = "failed",
                                    !.result = [NoResolution EXCEPT !.state = "thrown",
                                                                    !.error = err]]

\* clearCache()
ClearCacheOp ==
    /\ resolver' = [resolver EXCEPT !.snapshot = NoSnapshot]

\* The names of the directories of the model.
Acme == <<"A", "c", "m", "e">>
AcmeInc == <<"A", "c", "m", "e", " ", "I", "n", "c", ".">>
Apex == <<"A", "p", "e", "x">>
Web == <<"W", "e", "b">>
Al == <<"A", "l">>

\* A small upstream: three clients, two active projects and an inactive one,
\* an active and an inactive user, two tasks.
NamedDirectory ==
    [clients |-> << ClientRecord(1, Acme), ClientRecord(2, AcmeInc), ClientRecord(3, Apex) >>,
     projects |-> << ProjectRecord(1, Web, 1, Acme, TRUE), ProjectRecord(2, Acme, 3, Apex, TRUE),
                     ProjectRecord(3, Apex, 1, Acme, FALSE) >>,
     users |-> << UserRecord(1, Al, Acme, TRUE), UserRecord(2, Al, Apex, FALSE) >>,
     tasks |-> << TaskRecord(1, Acme, TRUE), TaskRecord(2, Web, TRUE) >>]

\* The decimal digits of a positive number, and the name of the n-th client of
\* a large upstream: c1, c2, ...
DigitChars == <<"0", "1", "2", "3", "4", "5", "6", "7", "8", "9">>
RECURSIVE Digits(_)
Digits(n) == IF n < 10 THEN <<DigitChars[n + 1]>>
             ELSE Digits(n \div 10) \o <<DigitChars[(n % 10) + 1]>>
ClientName(n) == <<"c">> \o Digits(n)

\* An upstream with one client more than a page of the refresh holds.
LargeDirectory ==
    [NoDirectory EXCEPT
        !.clients = [i \in 1 .. DirectoryPerPage + 1 |-> ClientRecord(i, ClientName(i))]]

\* The resolve calls on the small upstream.
MatchQueries ==
    { Acme, <<"a", "c", "m", "e", " ", "i", "n", "c">>, <<"A", "c", "m", "e", " ", "-", " ", "W", "e", "b">>, <<"A", "p", "x", "e">>, <<"A", "c">> }
MatchOptions ==
    { <<Undefined, Undefined, Undefined>>,
      <<Undefined, Given(Score(0, 1)), Given(2)>>,
      <<Undefined, Given(Score(9, 10)), Undefined>>,
      <<Given(<<"client">>), Given(Score(0, 1)), Given(1)>>,
      <<Given(<<"task", "project">>), Undefined, Given(1)>>,
      <<Given(<<"task", "project">>), Given(Score(0, 1)), Given(2)>> }
MatchParams ==
    { ResolveParams(query, options[1], options[2], options[3]) :
        query \in MatchQueries, options \in MatchOptions }

\* The resolve calls on either upstream: by the name of a client, all else default.
SnapshotParams ==
    { ResolveParams(query, Undefined, Undefined, Undefined) :
        query \in {Acme, Web, ClientName(DirectoryPerPage), ClientName(DirectoryPerPage + 1)} }

\* ============================================================ calculators
\* src/src/compute/utilization.ts, src/src/compute/aggregation.ts
\*
\* Numbers.  Hours are counted in hundredths of an hour, rates in tenths of the
\* currency unit and invoice amounts in cents; a product hours * rate is then in
\* thousandths of the currency unit.  A reported value is in hundredths (of an
\* hour, of the currency unit, of a percent).  Arithmetic is exact: the
\* rounding errors of floating point are not followed.
HoursScale == 100
AmountScale == 1000

\* round(num) = Math.round(num * 100) / 100, for num = n / scale: the result in
\* hundredths.  Math.round rounds a half up.
Round(n, scale) ==
    LET step == scale \div 100 IN (2 * n + step) \div (2 * step)

\* round((num / den) * factor) where den > 0: the result in hundredths.
RoundRatio(num, den, factor) ==
    LET whole == (factor * num) \div den
        rest == (factor * num) % den
    IN  100 * whole + (200 * rest + den) \div (2 * den)

RECURSIVE SumSeq(_)
SumSeq(s) == IF s = <<>> THEN 0 ELSE Head(s) + SumSeq(Tail(s))

\* A time entry of the upstream, as the calculators read it.
TimeEntry(id, client, project, user, hours, rounded_hours, billable, billable_rate, cost_rate,
          is_billed) ==
    [id |-> id, client |-> client, project |-> project, user |-> user, hours |-> hours,
     rounded_hours |-> rounded_hours, billable |-> billable, billable_rate |-> billable_rate,
     cost_rate |-> cost_rate, is_billed |-> is_billed]
Named(id, name) == [id |-> id, name |-> name]

\* An invoice of the upstream.
Invoice(id, clientId, amount, state) ==
    [id |-> id, client |-> [id |-> clientId], amount |-> amount, state |-> state]

\* entry.billable_rate ?? 0
BillableRateOf(entry) ==
    IF entry.billable_rate.defined THEN entry.billable_rate.value ELSE 0

\* entry.cost_rate ?? rateMap.get(entry.user.id) ?? 0
CostRateOf(entry, rateMap) ==
    IF entry.cost_rate.defined THEN entry.cost_rate.value
    ELSE IF entry.user.id \in DOMAIN rateMap THEN rateMap[entry.user.id]
    ELSE 0

\* The warning texts.
UserWord == <<"u", "s", "e", "r", " ">>
NoCostRateWarning(user) ==
    <<"N", "o", " ", "c", "o", "s", "t", " ", "r", "a", "t", "e", " ", "f", "o", "r", " ">>
        \o UserWord \o user.name \o <<" ", "(", "I", "D", ":", " ">> \o Digits(user.id)
        \o <<")">>
NoInvoicesWarning == <<"N", "o", " ", "i", "n", "v", "o", "i", "c", "e", "s">>
HybridWarning == <<"H", "y", "b", "r", "i", "d">>
NoRatesWarning == <<"N", "o", " ", "r", "a", "t", "e", "s">>

\* warnings.some(w => w.includes(`user ${entry.user.name}`))
WarnedAbout(warnings, user) ==
    \E i \in 1 .. Len(warnings) : Includes(warnings[i], UserWord \o user.name)

\* A margin that is the share of the cost in the revenue.
MarginPercent_OfCost(profit, billableAmount) ==
    IF billableAmount > 0 THEN RoundRatio(billableAmount - profit, billableAmount, 100) ELSE 0

\* billableAmount > 0 ? (profit / billableAmount) * 100 : 0, rounded
MarginPercent(profit, billableAmount) ==
    IF billableAmount > 0 THEN RoundRatio(profit, billableAmount, 100) ELSE 0

\* ProfitabilityCalculator.buildMetrics
BuildMetrics(hours, billableHours, nonBillableHours, billableAmount, cost) ==
    LET profit == billableAmount - cost
    IN  [hours |-> Round(hours, HoursScale),
         billable_hours |-> Round(billableHours, HoursScale),
         non_billable_hours |-> Round(nonBillableHours, HoursScale),
         billable_amount |-> Round(billableAmount, AmountScale),
         cost |-> Round(cost, AmountScale),
         profit |-> Round(profit, AmountScale),
         margin_percent |-> MarginPercent(profit, billableAmount),
         effective_rate |-> IF billableHours > 0
                            THEN RoundRatio(billableAmount, HoursScale * billableHours, 1)
                            ELSE 0,
         cost_rate_avg |-> IF hours > 0 THEN RoundRatio(cost, HoursScale * hours, 1) ELSE 0]

\* The sums the three modes have in common: the loop over the entries.
HoursOf(entries) == SumSeq([i \in 1 .. Len(entries) |-> entries[i].hours])
BillableHoursOf(entries) ==
    SumSeq([i \in 1 .. Len(entries) |-> IF entries[i].billable THEN entries[i].hours ELSE 0])
NonBillableHoursOf(entries) ==
    SumSeq([i \in 1 .. Len(entries) |-> IF entries[i].billable THEN 0 ELSE entries[i].hours])

\* A loop that costs every entry.
Costed_Always(entry, includeNonBillable) == TRUE

\* if (entry.billable || includeNonBillable) cost += entryHours * costRate
Costed(entry, includeNonBillable) == entry.billable \/ includeNonBillable
CostOf(entries, rateMap, includeNonBillable) ==
    SumSeq([i \in 1 .. Len(entries) |->
               IF Costed(entries[i], includeNonBillable)
               THEN entries[i].hours * CostRateOf(entries[i], rateMap) ELSE 0])

\* The warnings calculateTimeBased leaves in `warnings` after its loop: one for
\* an entry that is costed at rate 0 with hours above 0, unless a warning
\* that names the user is there already.
RECURSIVE CostWarnings(_, _, _, _)
CostWarnings(entries, rateMap, includeNonBillable, warnings) ==
    IF entries = <<>> THEN warnings
    ELSE LET entry == Head(entries)
             warn == /\ Costed(entry, includeNonBillable)
                     /\ CostRateOf(entry, rateMap) = 0
                     /\ entry.hours > 0
                     /\ ~WarnedAbout(warnings, entry.user)
         IN  CostWarnings(Tail(entries), rateMap, includeNonBillable,
                          IF warn THEN Append(warnings, NoCostRateWarning(entry.user))
                          ELSE warnings)

\* ProfitabilityCalculator.calculateTimeBased: the metrics and the warnings.
CalculateTimeBased(entries, rateMap, includeNonBillable, warnings) ==
    [metrics |->
         BuildMetrics(HoursOf(entries), BillableHoursOf(entries), NonBillableHoursOf(entries),
                      SumSeq([i \in 1 .. Len(entries) |->
                                 IF entries[i].billable
                                 THEN entries[i].hours * BillableRateOf(entries[i]) ELSE 0]),
                      CostOf(entries, rateMap, includeNonBillable)),
     warnings |-> CostWarnings(entries, rateMap, includeNonBillable, warnings)]

\* The sum of the amounts of the invoices that are not drafts, in thousandths.
InvoicedAmount(invoices) ==
    SumSeq([i \in 1 .. Len(invoices) |->
               IF invoices[i].state # "draft"
               THEN invoices[i].amount * (AmountScale \div HoursScale) ELSE 0])

\* ProfitabilityCalculator.calculateInvoiceBased
CalculateInvoiceBased(entries, invoices, rateMap, includeNonBillable, warnings) ==
    [metrics |->
         BuildMetrics(HoursOf(entries), BillableHoursOf(entries), NonBillableHoursOf(entries),
                      InvoicedAmount(invoices), CostOf(entries, rateMap, includeNonBillable)),
     warnings |-> IF invoices = <<>> THEN Append(warnings, NoInvoicesWarning) ELSE warnings]

\* ProfitabilityCalculator.calculateHybrid
CalculateHybrid(entries, invoices, rateMap, includeNonBillable, warnings) ==
    LET billedHours ==
            SumSeq([i \in 1 .. Len(entries) |->
                       IF entries[i].billable /\ entries[i].is_billed
                       THEN entries[i].hours ELSE 0])
        unbilledHours ==
            SumSeq([i \in 1 .. Len(entries) |->
                       IF entries[i].billable /\ ~entries[i].is_billed
                       THEN entries[i].hours ELSE 0])
        timeBasedAmount ==
            SumSeq([i \in 1 .. Len(entries) |->
                       IF entries[i].billable /\ ~entries[i].is_billed
                       THEN entries[i].hours * BillableRateOf(entries[i]) ELSE 0])
    IN  [metrics |->
             BuildMetrics(HoursOf(entries), BillableHoursOf(entries),
                          NonBillableHoursOf(entries),
                          InvoicedAmount(invoices) + timeBasedAmount,
                          CostOf(entries, rateMap, includeNonBillable)),
         warnings |-> IF billedHours > 0 /\ unbilledHours > 0
                      THEN Append(warnings, HybridWarning) ELSE warnings]

\* switch (mode)
CalculateMode(mode, entries, invoices, rateMap, includeNonBillable, warnings) ==
    CASE mode = "time_based" ->
             CalculateTimeBased(entries, rateMap, includeNonBillable, warnings)
      [] mode = "invoice_based" ->
             CalculateInvoiceBased(entries, invoices, rateMap, includeNonBillable, warnings)
      [] mode = "hybrid" ->
             CalculateHybrid(entries, invoices, rateMap, includeNonBillable, warnings)

\* UtilizationCalculator.calculateMetrics; capacityHours in hundredths of an hour.
UtilizationMetrics(entries, capacityHours, workingDays) ==
    LET totalHours == HoursOf(entries)
        billableHours == BillableHoursOf(entries)
    IN  [total_hours |-> Round(totalHours, HoursScale),
         billable_hours |-> Round(billableHours, HoursScale),
         non_billable_hours |-> Round(NonBillableHoursOf(entries), HoursScale),
         capacity_hours |-> Round(capacityHours, HoursScale),
         utilization_percent |-> IF capacityHours > 0
                                 THEN RoundRatio(totalHours, capacityHours, 100) ELSE 0,
         billable_utilization_percent |-> IF capacityHours > 0
                                          THEN RoundRatio(billableHours, capacityHours, 100)
                                          ELSE 0,
         billable_ratio_percent |-> IF totalHours > 0
                                    THEN RoundRatio(billableHours, totalHours, 100) ELSE 0,
         working_days |-> workingDays]

\* TimeAggregationCalculator.calculateMetrics
AggregationMetrics(entries) ==
    [hours |-> Round(HoursOf(entries), HoursScale),
     rounded_hours |->
         Round(SumSeq([i \in 1 .. Len(entries) |-> entries[i].rounded_hours]), HoursScale),
     billable_hours |-> Round(BillableHoursOf(entries), HoursScale),
     non_billable_hours |-> Round(NonBillableHoursOf(entries), HoursScale),
     entry_count |-> Len(entries),
     billable_amount |->
         Round(SumSeq([i \in 1 .. Len(entries) |->
                          IF entries[i].billable
                          THEN entries[i].hours * BillableRateOf(entries[i]) ELSE 0]),
               AmountScale)]

\* getGroupKey for the dimensions client, project and user: the id and the
\* name; the key is the dimension and the id.
GetGroupKey(entry, groupBy) ==
    CASE groupBy = "client" -> entry.client
      [] groupBy = "project" -> entry.project
      [] groupBy = "user" -> entry.user

\* The keys of the Map `groups`, in insertion order: each key where it first
\* occurs among the entries.
RECURSIVE GroupKeys(_, _, _)
GroupKeys(entries, groupBy, keys) ==
    IF entries = <<>> THEN keys
    ELSE LET id == GetGroupKey(Head(entries), groupBy).id
         IN  GroupKeys(Tail(entries), groupBy,
                       IF \E i \in 1 .. Len(keys) : keys[i] = id THEN keys
                       ELSE Append(keys, id))

\* groups.get(key).entries, and the name the group was created with.
GroupEntries(entries, groupBy, id) ==
    SelectSeq(entries, LAMBDA e : GetGroupKey(e, groupBy).id = id)
GroupName(entries, groupBy, id) == GetGroupKey(GroupEntries(entries, groupBy, id)[1], groupBy).name

\* groups.get(key).invoices: an invoice goes to the group of its client when
\* the dimension is client, and to no group otherwise.
GroupInvoices(invoices, groupBy, id) ==
    IF groupBy = "client" THEN SelectSeq(invoices, LAMBDA inv : inv.client.id = id)
    ELSE <<>>

\* A node of a result tree.  records and invoices are groupData.entries and
\* groupData.invoices, the records the metrics of the node were computed from;
\* children is empty where the code leaves result.children unset.
GroupNode(id, name, type, metrics, children, records, invoices) ==
    [grouping |-> [id |-> id, name |-> name, type |-> type], metrics |-> metrics,
     children |-> children, records |-> records, invoices |-> invoices]

\* results.sort((a, b) => b.metrics[field] - a.metrics[field]): stable.
RECURSIVE SortByMetric(_, _)
SortByMetric(results, field) ==
    IF results = <<>> THEN <<>>
    ELSE LET e == Head(results)
             rest == SortByMetric(Tail(results), field)
             higher == SelectSeq(rest, LAMBDA x : x.metrics[field] > e.metrics[field])
             others == SelectSeq(rest, LAMBDA x : x.metrics[field] <= e.metrics[field])
         IN  higher \o <<e>> \o others

\* ProfitabilityCalculator.groupResults
RECURSIVE ProfitabilityGroupResults(_, _, _, _, _, _)
ProfitabilityGroupResults(entries, invoices, mode, groupBy, rateMap, includeNonBillable) ==
    IF groupBy = <<>> THEN <<>>
    ELSE LET primaryGroup == Head(groupBy)
             remainingGroups == Tail(groupBy)
             keys == GroupKeys(entries, primaryGroup, <<>>)
             node(id) ==
                 LET groupEntries == GroupEntries(entries, primaryGroup, id)
                     groupInvoices == GroupInvoices(invoices, primaryGroup, id)
                 IN  GroupNode(id, GroupName(entries, primaryGroup, id), primaryGroup,
                               CalculateMode(mode, groupEntries, groupInvoices, rateMap,
                                             includeNonBillable, <<>>).metrics,
                               ProfitabilityGroupResults(groupEntries, groupInvoices, mode,
                                                         remainingGroups, rateMap,
                                                         includeNonBillable),
                               groupEntries, groupInvoices)
         IN  SortByMetric([k \in 1 .. Len(keys) |-> node(keys[k])], "billable_amount")

\* The ids of the users of the entries.
UserIds(entries) == {entries[i].user.id : i \in 1 .. Len(entries)}

\* UtilizationCalculator.groupResults; capacityPerDay in hundredths of an hour.
RECURSIVE UtilizationGroupResults(_, _, _, _)
UtilizationGroupResults(entries, groupBy, capacityPerDay, workingDays) ==
    IF groupBy = <<>> THEN <<>>
    ELSE LET primaryGroup == Head(groupBy)
             remainingGroups == Tail(groupBy)
             keys == GroupKeys(entries, primaryGroup, <<>>)
             node(id) ==
                 LET groupEntries == GroupEntries(entries, primaryGroup, id)
                     capacityHours ==
                         IF primaryGroup = "user" THEN workingDays * capacityPerDay
                         ELSE workingDays * capacityPerDay * Cardinality(UserIds(groupEntries))
                 IN  GroupNode(id, GroupName(entries, primaryGroup, id), primaryGroup,
                               UtilizationMetrics(groupEntries, capacityHours, workingDays),
                               UtilizationGroupResults(groupEntries, remainingGroups,
                                                       capacityPerDay, workingDays),
                               groupEntries, <<>>)
         IN  SortByMetric([k \in 1 .. Len(keys) |-> node(keys[k])], "total_hours")

\* TimeAggregationCalculator.groupResults
RECURSIVE AggregationGroupResults(_, _)
AggregationGroupResults(entries, groupBy) ==
    IF groupBy = <<>> THEN <<>>
    ELSE LET primaryGroup == Head(groupBy)
             remainingGroups == Tail(groupBy)
             keys == GroupKeys(entries, primaryGroup, <<>>)
             node(id) ==
                 LET groupEntries == GroupEntries(entries, primaryGroup, id)
                 IN  GroupNode(id, GroupName(entries, primaryGroup, id), primaryGroup,
                               AggregationMetrics(groupEntries),
                               AggregationGroupResults(groupEntries, remainingGroups),
                               groupEntries, <<>>)
         IN  SortByMetric([k \in 1 .. Len(keys) |-> node(keys[k])], "hours")

\* Days are numbered so that day % 7 is the day of the week of the calendar
\* date, 0 for a Sunday and 6 for a Saturday.  new Date("YYYY-MM-DD") is the
\* midnight of the date in UTC, and getDay() is the day of the week in the zone
\* of the process: the one of the date itself at an offset of 0 or more hours,
\* the one of the day before at an offset below 0.
GetDay(day, utcOffset) == (IF utcOffset < 0 THEN day - 1 ELSE day) % 7

\* calculateWorkingDays: the loop steps from the midnight of `from` to the one
\* of `to`, a day at a time.
CalculateWorkingDays(from, to, excludeWeekends, utcOffset) ==
    Cardinality({day \in from .. to : excludeWeekends => GetDay(day, utcOffset) \notin {0, 6}})

DefaultCapacityHoursPerDay == 8

\* The response of UtilizationCalculator.calculate for the entries the upstream
\* returned.
UtilizationResponse(params, entries, utcOffset) ==
    LET capacityPerDay == IF params.capacity_hours_per_day.defined
                          THEN params.capacity_hours_per_day.value
                          ELSE DefaultCapacityHoursPerDay * HoursScale
        workingDays == CalculateWorkingDays(params.from, params.to, params.exclude_weekends,
                                           utcOffset)
        activeUsersCount == IF params.user_id.defined THEN 1
                            ELSE Cardinality(UserIds(entries))
        totalCapacity == workingDays * capacityPerDay * activeUsersCount
    IN  [calc |-> "utilization",
         totals |-> UtilizationMetrics(entries, totalCapacity, workingDays),
         grouped_results |->
             UtilizationGroupResults(entries, params.group_by, capacityPerDay, workingDays),
         warnings |-> <<>>, entries_analyzed |-> Len(entries), invoices_analyzed |-> 0,
         users_included |-> activeUsersCount]

\* The response of ProfitabilityCalculator.calculate for the entries and the
\* invoices the upstream returned; rates is what getRates gave, or its failure.
ProfitabilityResponse(params, entries, invoices, rates) ==
    LET asked == entries # <<>>
        rateMap == IF asked /\ rates.ok THEN rates.users ELSE <<>>
        warnings == IF asked /\ ~rates.ok THEN <<NoRatesWarning>> ELSE <<>>
        totals == CalculateMode(params.mode, entries, invoices, rateMap,
                                params.include_non_billable, warnings)
    IN  [calc |-> "profitability",
         totals |-> totals.metrics,
         grouped_results |->
             ProfitabilityGroupResults(entries, invoices, params.mode, params.group_by,
                                       rateMap, params.include_non_billable),
         warnings |-> totals.warnings, entries_analyzed |-> Len(entries),
         invoices_analyzed |-> Len(invoices), users_included |-> 0]

\* The response of TimeAggregationCalculator.aggregate for the entries the
\* upstream returned.
AggregationResponse(params, fetched) ==
    LET entries == IF params.billable_only THEN SelectSeq(fetched, LAMBDA e : e.billable)
                   ELSE fetched
    IN  [calc |-> "aggregation",
         totals |-> AggregationMetrics(entries),
         grouped_results |-> AggregationGroupResults(entries, params.group_by),
         warnings |-> <<>>, entries_analyzed |-> Len(entries), invoices_analyzed |-> 0,
         users_included |-> 0]

VARIABLES
    report     \* the last call of a calculator: its parameters, the records the
               \*   upstream returned to it, and its response

reportVars == <<report>>

NoCalculation ==
    [mode |-> "none", group_by |-> <<>>, include_non_billable |-> FALSE,
     billable_only |-> FALSE, user_id |-> Undefined, from |-> 0, to |-> 0,
     exclude_weekends |-> FALSE, capacity_hours_per_day |-> Undefined]
NoResponse ==
    [calc |-> "none", totals |-> <<>>, grouped_results |-> <<>>, warnings |-> <<>>,
     entries_analyzed |-> 0, invoices_analyzed |-> 0, users_included |-> 0]
NoReport ==
    [pc |-> "idle", params |-> NoCalculation, entries |-> <<>>, invoices |-> <<>>,
     rateMap |-> <<>>, utcOffset |-> 0, response |-> NoResponse]

\* ProfitabilityCalculator.calculate(params)
CalculateProfitability(params, entries, invoices, rates) ==
    /\ report.pc = "idle"
    /\ report' = [pc |-> "done", params |-> params, entries |-> entries,
                  invoices |-> invoices,
                  rateMap |-> IF entries # <<>> /\ rates.ok THEN rates.users ELSE <<>>,
                  utcOffset |-> 0,
                  response |-> ProfitabilityResponse(params, entries, invoices, rates)]

\* UtilizationCalculator.calculate(params) in a process whose zone is
\* utcOffset hours from UTC.
CalculateUtilization(params, entries, utcOffset) ==
    /\ report.pc = "idle"
    /\ report' = [pc |-> "done", params |-> params, entries |-> entries, invoices |-> <<>>,
                  rateMap |-> <<>>, utcOffset |-> utcOffset,
                  response |-> UtilizationResponse(params, entries, utcOffset)]

\* TimeAggregationCalculator.aggregate(params)
Aggregate(params, entries) ==
    /\ report.pc = "idle"
    /\ report' = [pc |-> "done", params |-> params, entries |-> entries, invoices |-> <<>>,
                  rateMap |-> <<>>, utcOffset |-> 0,
                  response |-> AggregationResponse(params, entries)]

\* The caller has the response; the calculators keep nothing between calls.
TakeReport ==
    /\ report.pc = "done"
    /\ report' = NoReport

\* The records of the model's upstream.
Bo == <<"B", "o">>
Ali == <<"A", "l", "i">>
EntryPool ==
    << TimeEntry(1, Named(1, Acme), Named(1, Web), Named(1, Al), 1000, 1000, TRUE,
                 Given(1000), Given(500), TRUE),
       TimeEntry(2, Named(1, Acme), Named(2, Apex), Named(2, Bo), 25, 25, TRUE,
                 Given(333), Undefined, FALSE),
       TimeEntry(4, Named(1, Acme), Named(2, Apex), Named(3, Ali), 25, 50, TRUE,
                 Given(333), Undefined, FALSE),
       TimeEntry(3, Named(2, Apex), Named(3, Acme), Named(1, Al), 200, 200, FALSE,
                 Undefined, Undefined, FALSE),
       TimeEntry(5, Named(2, Apex), Named(3, Acme), Named(2, Bo), 3000, 3000, FALSE,
                 Undefined, Undefined, FALSE) >>
InvoicePool ==
    << Invoice(1, 1, 120000, "open"), Invoice(2, 3, 30000, "paid"),
       Invoice(3, 1, 5000, "draft") >>

\* The entries of the pool at the places in `places`, in the pool's order.
Picked(pool, places) ==
    [i \in 1 .. Cardinality(places) |->
        pool[CHOOSE k \in places : Cardinality({j \in places : j <= k}) = i]]
EntryLists == {Picked(EntryPool, places) : places \in SUBSET (1 .. Len(EntryPool))}
InvoiceLists == {SubSeq(InvoicePool, 1, n) : n \in 0 .. Len(InvoicePool)}

\* What getRates gives: the cost rates of users 1 and 2, or a failure.
RateTables ==
    { [ok |-> TRUE, users |-> [u \in {1, 2} |-> IF u = 1 THEN 400 ELSE 201]],
      [ok |-> FALSE, users |-> <<>>] }

GroupBys ==
    { <<>>, <<"client">>, <<"project">>, <<"client", "project">>, <<"project", "user">> }

ProfitabilityParams ==
    { [NoCalculation EXCEPT !.mode = mode, !.group_by = group_by,
                       !.include_non_billable = include_non_billable] :
        mode \in {"time_based", "invoice_based", "hybrid"}, group_by \in GroupBys,
        include_non_billable \in BOOLEAN }
UtilizationParams ==
    { [NoCalculation EXCEPT !.mode = "utilization", !.group_by = group_by, !.user_id = user_id,
                       !.from = range[1], !.to = range[2],
                       !.exclude_weekends = exclude_weekends,
                       !.capacity_hours_per_day = capacity_hours_per_day] :
        group_by \in GroupBys, user_id \in {Undefined, Given(1)},
        range \in {<<1, 5>>, <<5, 8>>, <<6, 7>>}, exclude_weekends \in BOOLEAN,
        capacity_hours_per_day \in {Undefined, Given(4 * HoursScale)} }
AggregationParams ==
    { [NoCalculation EXCEPT !.mode = "aggregation", !.group_by = group_by,
                       !.billable_only = billable_only] :
        group_by \in GroupBys, billable_only \in BOOLEAN }

\* The zones of the process: west of UTC, UTC, east of UTC.
UtcOffsets == {-5, 0, 1}

\* The entries the upstream returns to a call with the filter user_id.
EntriesOfUser(entries, user_id) ==
    IF user_id.defined THEN SelectSeq(entries, LAMBDA e : e.user.id = user_id.value)
    ELSE entries

\* ------------------------------------------------------ budget performance
\* Hours and budgets are in hundredths of an hour, tolerances in percent.
\* on_budget_tolerance_percent = 5
DefaultTolerancePercent == 5
\* .slice(0, 5) of the two lists of users
TopListSize == 5

\* A time entry as BudgetPerformanceCalculator reads it; budget is
\* entry.user_assignment?.budget, Undefined where the upstream gives none.
BudgetEntry(id, client, project, user, hours, budget) ==
    [id |-> id, client |-> client, project |-> project, user |-> user, hours |-> hours,
     user_assignment |-> [budget |-> budget]]

\* A percentage before rounding: the number num / den, or null.
Percent(num, den) == [null |-> FALSE, num |-> num, den |-> den]
NullPercent == [null |-> TRUE, num |-> 0, den |-> 1]

\* variancePercent !== null ? round(variancePercent) : null, in hundredths
RoundPercent(percent) ==
    IF percent.null THEN Undefined ELSE Given(RoundRatio(percent.num, percent.den, 1))

\* A rating that takes a variance at the tolerance for one beyond it.
GetRating_AtTolerance(variancePercent, tolerance) ==
    IF variancePercent.null THEN "on_budget"
    ELSE IF variancePercent.num >= tolerance * variancePercent.den THEN "over_budget"
    ELSE IF variancePercent.num <= (0 - tolerance) * variancePercent.den THEN "under_budget"
    ELSE "on_budget"

\* BudgetPerformanceCalculator.getRating
GetRating(variancePercent, tolerance) ==
    IF variancePercent.null THEN "on_budget"
    ELSE IF variancePercent.num > tolerance * variancePercent.den THEN "over_budget"
    ELSE IF variancePercent.num < (0 - tolerance) * variancePercent.den THEN "under_budget"
    ELSE "on_budget"

\* if (require_person_budget && project?.budget_by !== 'person') continue
Counted(entry, projectMap, requirePersonBudget) ==
    \/ ~requirePersonBudget
    \/ /\ entry.project.id \in DOMAIN projectMap
       /\ projectMap[entry.project.id].budget_by = "person"

\* `${entry.user.id}:${entry.project.id}`
PairKey(entry) == <<entry.user.id, entry.project.id>>

\* The keys of userProjectMap in insertion order.
RECURSIVE PairKeys(_, _)
PairKeys(entries, keys) ==
    IF entries = <<>> THEN keys
    ELSE PairKeys(Tail(entries),
                  IF \E i \in 1 .. Len(keys) : keys[i] = PairKey(Head(entries)) THEN keys
                  ELSE Append(keys, PairKey(Head(entries))))

\* userProjectMap.get(key) after the loop over the entries: the names and the
\* budget of the first entry of the pair, the hours and the count of all.
UserProjectData(entries, key) ==
    LET own == SelectSeq(entries, LAMBDA e : PairKey(e) = key)
    IN  [userId |-> own[1].user.id, userName |-> own[1].user.name,
         projectId |-> own[1].project.id, projectName |-> own[1].project.name,
         clientId |-> own[1].client.id, clientName |-> own[1].client.name,
         budgetHours |-> own[1].user_assignment.budget,
         actualHours |-> SumSeq([i \in 1 .. Len(own) |-> own[i].hours]),
         entryCount |-> Len(own)]

\* budgetHours !== null ? actualHours - budgetHours : 0
VarianceHours(projData) ==
    IF projData.budgetHours.defined THEN projData.actualHours - projData.budgetHours.value
    ELSE 0

\* budgetHours !== null && budgetHours > 0 ? (varianceHours / budgetHours) * 100 : null
VariancePercent(projData) ==
    IF projData.budgetHours.defined /\ projData.budgetHours.value > 0
    THEN Percent(100 * VarianceHours(projData), projData.budgetHours.value)
    ELSE NullPercent

\* The element pushed on projectMetrics for a pair.
ProjectMetrics(projData, tolerance) ==
    [project_id |-> projData.projectId, project_name |-> projData.projectName,
     client_id |-> projData.clientId, client_name |-> projData.clientName,
     budget_hours |-> projData.budgetHours,
     actual_hours |-> Round(projData.actualHours, HoursScale),
     variance_hours |-> Round(VarianceHours(projData), HoursScale),
     variance_percent |-> RoundPercent(VariancePercent(projData)),
     rating |-> GetRating(VariancePercent(projData), tolerance),
     entry_count |-> projData.entryCount]

\* items.sort((a, b) => keys[a] - keys[b]): stable, smallest key first.
RECURSIVE SortAscending(_)
SortAscending(pairs) ==
    IF pairs = <<>> THEN <<>>
    ELSE LET e == Head(pairs)
             rest == SortAscending(Tail(pairs))
         IN  SelectSeq(rest, LAMBDA x : x.key < e.key) \o <<e>>
                 \o SelectSeq(rest, LAMBDA x : x.key >= e.key)
SortByKey(items, keys) ==
    LET sorted == SortAscending([i \in 1 .. Len(items) |-> [key |-> keys[i], item |-> items[i]]])
    IN  [i \in 1 .. Len(items) |-> sorted[i].item]

\* The element pushed on userResults for a user: the metrics over the user's
\* pairs and the pairs' metrics, largest variance_hours first.
UserResult(userId, data, tolerance) ==
    LET projects == SelectSeq(data, LAMBDA d : d.userId = userId)
        count == Len(projects)
        rated(rating) ==
            Cardinality({i \in 1 .. count :
                            /\ projects[i].budgetHours.defined
                            /\ GetRating(VariancePercent(projects[i]), tolerance) = rating})
        totalBudgetHours ==
            SumSeq([i \in 1 .. count |->
                       IF projects[i].budgetHours.defined THEN projects[i].budgetHours.value
                       ELSE 0])
        totalActualHours == SumSeq([i \in 1 .. count |-> projects[i].actualHours])
        totalVarianceHours == totalActualHours - totalBudgetHours
        totalVariancePercent ==
            IF totalBudgetHours > 0 THEN Percent(100 * totalVarianceHours, totalBudgetHours)
            ELSE NullPercent
        projectMetrics == [i \in 1 .. count |-> ProjectMetrics(projects[i], tolerance)]
    IN  [user_id |-> userId, user_name |-> projects[1].userName,
         metrics |->
             [total_budget_hours |-> Round(totalBudgetHours, HoursScale),
              total_actual_hours |-> Round(totalActualHours, HoursScale),
              total_variance_hours |-> Round(totalVarianceHours, HoursScale),
              total_variance_percent |-> RoundPercent(totalVariancePercent),
              projects_over_budget |-> rated("over_budget"),
              projects_under_budget |-> rated("under_budget"),
              projects_on_budget |-> rated("on_budget"),
              projects_without_budget |->
                  Cardinality({i \in 1 .. count : ~projects[i].budgetHours.defined}),
              overall_rating |-> GetRating(totalVariancePercent, tolerance)],
         projects |->
             SortByKey(projectMetrics,
                       [i \in 1 .. count |-> 0 - projectMetrics[i].variance_hours])]

\* total_variance_percent ?? 0
PercentOrZero(percent) == IF percent.defined THEN percent.value ELSE 0

\* BudgetPerformanceCalculator.sortUsers for sort_by variance_hours,
\* variance_percent and actual_hours.
SortUsers(users, sortBy, sortOrder) ==
    LET defaultDesc == sortBy \in {"variance_hours", "variance_percent"}
        isDesc == IF sortOrder.defined THEN sortOrder.value = "desc" ELSE defaultDesc
        of(user) ==
            CASE sortBy = "variance_hours" -> user.metrics.total_variance_hours
              [] sortBy = "variance_percent" ->
                     PercentOrZero(user.metrics.total_variance_percent)
              [] sortBy = "actual_hours" -> user.metrics.total_actual_hours
    IN  SortByKey(users, [i \in 1 .. Len(users) |->
                             IF isDesc THEN 0 - of(users[i]) ELSE of(users[i])])

\* BudgetPerformanceCalculator.calculateTotals
CalculateTotals(users) ==
    LET totalBudgetHours ==
            SumSeq([i \in 1 .. Len(users) |-> users[i].metrics.total_budget_hours])
        totalActualHours ==
            SumSeq([i \in 1 .. Len(users) |-> users[i].metrics.total_actual_hours])
        rated(rating) ==
            Cardinality({i \in 1 .. Len(users) : users[i].metrics.overall_rating = rating})
    IN  [total_users |-> Len(users),
         users_over_budget |-> rated("over_budget"),
         users_under_budget |-> rated("under_budget"),
         users_on_budget |-> rated("on_budget"),
         total_budget_hours |-> Round(totalBudgetHours, HoursScale),
         total_actual_hours |-> Round(totalActualHours, HoursScale),
         total_variance_hours |-> Round(totalActualHours - totalBudgetHours, HoursScale),
         total_variance_percent |->
             IF totalBudgetHours > 0
             THEN Given(RoundRatio(100 * (totalActualHours - totalBudgetHours),
                                   totalBudgetHours, 1))
             ELSE Undefined]

\* BudgetPerformanceCalculator.getTopPerformers
GetTopPerformers(users) ==
    LET under == SelectSeq(users, LAMBDA u :
                     /\ u.metrics.overall_rating = "under_budget"
                     /\ u.metrics.total_variance_percent.defined)
        sorted == SortByKey(under, [i \in 1 .. Len(under) |->
                                       PercentOrZero(under[i].metrics.total_variance_percent)])
    IN  [i \in 1 .. Min(Len(sorted), TopListSize) |->
            [user_id |-> sorted[i].user_id, user_name |-> sorted[i].user_name,
             variance_percent |-> sorted[i].metrics.total_variance_percent.value]]

\* A list of users that filters on one over-budget project.
GetRepeatOffenders_FromOne(users) ==
    LET over == SelectSeq(users, LAMBDA u : u.metrics.projects_over_budget >= 1)
        sorted == SortByKey(over, [i \in 1 .. Len(over) |->
                                      0 - over[i].metrics.projects_over_budget])
    IN  [i \in 1 .. Min(Len(sorted), TopListSize) |->
            [user_id |-> sorted[i].user_id, user_name |-> sorted[i].user_name,
             projects_over |-> sorted[i].metrics.projects_over_budget,
             total_variance_hours |-> sorted[i].metrics.total_variance_hours]]

\* BudgetPerformanceCalculator.getRepeatOffenders
GetRepeatOffenders(users) ==
    LET over == SelectSeq(users, LAMBDA u : u.metrics.projects_over_budget >= 2)
        sorted == SortByKey(over, [i \in 1 .. Len(over) |->
                                      0 - over[i].metrics.projects_over_budget])
    IN  [i \in 1 .. Min(Len(sorted), TopListSize) |->
            [user_id |-> sorted[i].user_id, user_name |-> sorted[i].user_name,
             projects_over |-> sorted[i].metrics.projects_over_budget,
             total_variance_hours |-> sorted[i].metrics.total_variance_hours]]

\* BudgetPerformanceCalculator.emptyResponse
EmptyResponse(tolerance, warnings) ==
    [totals |-> [total_users |-> 0, users_over_budget |-> 0, users_under_budget |-> 0,
                 users_on_budget |-> 0, total_budget_hours |-> 0, total_actual_hours |-> 0,
                 total_variance_hours |-> 0, total_variance_percent |-> Undefined],
     tolerance |-> tolerance, users |-> <<>>, top_performers |-> <<>>,
     over_budget_repeat_offenders |-> <<>>, warnings |-> warnings, entries_analyzed |-> 0,
     projects_analyzed |-> 0]

\* The ids of the users in the insertion order of userMap.
RECURSIVE UsersInOrder(_, _)
UsersInOrder(data, ids) ==
    IF data = <<>> THEN ids
    ELSE UsersInOrder(Tail(data),
                      IF \E i \in 1 .. Len(ids) : ids[i] = Head(data).userId THEN ids
                      ELSE Append(ids, Head(data).userId))

\* The response of BudgetPerformanceCalculator.calculate for the entries and
\* the projects the upstream returned.  A warning is its kind and its count.
BudgetPerformanceResponse(params, entries, projectMap) ==
    LET tolerance == IF params.on_budget_tolerance_percent.defined
                     THEN params.on_budget_tolerance_percent.value
                     ELSE DefaultTolerancePercent
        sortBy == IF params.sort_by.defined THEN params.sort_by.value ELSE "variance_hours"
        counted == SelectSeq(entries, LAMBDA e :
                       Counted(e, projectMap, params.require_person_budget))
        keys == PairKeys(counted, <<>>)
        data == [k \in 1 .. Len(keys) |-> UserProjectData(counted, keys[k])]
        ids == UsersInOrder(data, <<>>)
        userResults ==
            SortUsers([i \in 1 .. Len(ids) |-> UserResult(ids[i], data, tolerance)],
                      sortBy, params.sort_order)
        withoutBudgets ==
            Cardinality({i \in 1 .. Len(userResults) :
                            userResults[i].metrics.projects_without_budget
                                = Len(userResults[i].projects)})
    IN  IF entries = <<>> THEN EmptyResponse(tolerance, << <<"no_entries", 0>> >>)
        ELSE IF keys = <<>> THEN EmptyResponse(tolerance, << <<"no_matching_entries", 0>> >>)
        ELSE [totals |-> CalculateTotals(userResults), tolerance |-> tolerance,
              users |-> userResults,
              top_performers |-> GetTopPerformers(userResults),
              over_budget_repeat_offenders |-> GetRepeatOffenders(userResults),
              warnings |-> IF withoutBudgets > 0
                           THEN << <<"users_without_budgets", withoutBudgets>> >> ELSE <<>>,
              entries_analyzed |-> Len(entries),
              projects_analyzed |-> Cardinality({data[k].projectId : k \in 1 .. Len(data)})]

VARIABLES
    perf       \* the last call of the budget performance calculator: its
               \*   parameters, the records the upstream returned, its response

perfVars == <<perf>>

BudgetParams(tolerance, require_person_budget, sort_by, sort_order) ==
    [on_budget_tolerance_percent |-> tolerance, require_person_budget |-> require_person_budget,
     sort_by |-> sort_by, sort_order |-> sort_order]
NoPerformance ==
    [pc |-> "idle", params |-> BudgetParams(Undefined, FALSE, Undefined, Undefined),
     entries |-> <<>>, projectMap |-> <<>>, response |-> EmptyResponse(0, <<>>)]

\* BudgetPerformanceCalculator.calculate(params)
CalculateBudgetPerformance(params, entries, projectMap) ==
    /\ perf.pc = "idle"
    /\ perf' = [pc |-> "done", params |-> params, entries |-> entries,
                projectMap |-> IF entries = <<>> THEN <<>> ELSE projectMap,
                response |-> BudgetPerformanceResponse(params, entries, projectMap)]

\* The caller has the response; the calculator keeps nothing between calls.
TakePerformance ==
    /\ perf.pc = "done"
    /\ perf' = NoPerformance

\* The entries of the model's upstream: Al on Web with a budget of 10 hours
\* (10 hours, then 2 more), Bo on Web at 9.5 of 10 hours and on Apex with no
\* budget, Ali on Acme with a budget of 0 hours and on Apex at 262.51 of 250.
BudgetEntryPool ==
    << BudgetEntry(1, Named(1, Acme), Named(1, Web), Named(1, Al), 1000, Given(1000)),
       BudgetEntry(2, Named(1, Acme), Named(1, Web), Named(2, Bo), 950, Given(1000)),
       BudgetEntry(3, Named(1, Acme), Named(1, Web), Named(1, Al), 200, Given(1000)),
       BudgetEntry(4, Named(1, Acme), Named(2, Apex), Named(2, Bo), 300, Undefined),
       BudgetEntry(5, Named(2, Apex), Named(3, Acme), Named(3, Ali), 100, Given(0)),
       BudgetEntry(6, Named(1, Acme), Named(2, Apex), Named(3, Ali), 26251, Given(25000)) >>
BudgetEntryLists ==
    {Picked(BudgetEntryPool, places) : places \in SUBSET (1 .. Len(BudgetEntryPool))}

\* The active projects: Web budgets by person, Apex by project; Acme is not
\* among them.
ProjectMaps ==
    { [p \in {1, 2} |-> [id |-> p, budget_by |-> IF p = 1 THEN "person" ELSE "project"]] }

BudgetParamsSet ==
    { BudgetParams(tolerance, require_person_budget, sort_by, sort_order) :
        tolerance \in {Undefined, Given(0), Given(20)},
        require_person_budget \in BOOLEAN,
        sort_by \in {Undefined, Given("variance_percent"), Given("actual_hours")},
        sort_order \in {Undefined, Given("asc"), Given("desc")} }

\* A larger upstream, of one user more than the two lists hold.  Each user is
\* under budget on one project by 10 percent times the user's id ("under"),
\* over budget by 20 percent on three projects ("over3"), or over budget by 20
\* percent on two projects, on three if the user's id is even, and far under
\* on a large fourth one ("both").
CrowdSize == TopListSize + 1
CrowdProfiles == {"under", "over3", "both"}
CrowdUser(u) == Named(u, <<Al, Bo, Ali>>[(u % 3) + 1])
CrowdProject(p) == Named(p, <<Web, Apex, Acme, AcmeInc>>[p])
CrowdEntry(u, p, hours, budget) ==
    BudgetEntry(10 * u + p, Named(1, Acme), CrowdProject(p), CrowdUser(u), hours, Given(budget))
CrowdEntriesOf(u, profile) ==
    CASE profile = "under" -> << CrowdEntry(u, 1, 1000 - 100 * u, 1000) >>
      [] profile = "over3" ->
             << CrowdEntry(u, 1, 1200, 1000), CrowdEntry(u, 2, 1200, 1000),
                CrowdEntry(u, 3, 1200, 1000) >>
      [] profile = "both" ->
             << CrowdEntry(u, 1, 1200, 1000), CrowdEntry(u, 2, 1200, 1000) >>
                 \o (IF u % 2 = 0 THEN << CrowdEntry(u, 3, 1200, 1000) >> ELSE <<>>)
                 \o << CrowdEntry(u, 4, 100 * u, 10000) >>
RECURSIVE CrowdEntries(_, _)
CrowdEntries(profiles, u) ==
    IF u > CrowdSize THEN <<>>
    ELSE CrowdEntriesOf(u, profiles[u]) \o CrowdEntries(profiles, u + 1)
CrowdEntryLists == {CrowdEntries(profiles, 1) : profiles \in [1 .. CrowdSize -> CrowdProfiles]}
CrowdParamsSet ==
    { BudgetParams(Undefined, FALSE, Undefined, Undefined),
      BudgetParams(Undefined, FALSE, Given("actual_hours"), Given("asc")) }

\* ------------------------------------------------------------ rates service
\* A rate is a whole amount an hour.  A rates.json as the service finds it:
\* absent, present with a text JSON.parse rejects, or present with an object
\* whose user_overrides, project_overrides and defaults may be left out.
RatesFile(exists, parses, user_overrides, project_overrides, cost_rate, billable_rate) ==
    [exists |-> exists, parses |-> parses, user_overrides |-> user_overrides,
     project_overrides |-> project_overrides,
     defaults |-> [cost_rate |-> cost_rate, billable_rate |-> billable_rate]]

\* this.config: null, or a config.
NullConfig ==
    [set |-> FALSE, user_overrides |-> <<>>, project_overrides |-> <<>>,
     defaults |-> [cost_rate |-> 0, billable_rate |-> Undefined]]
\* DEFAULT_CONFIG
DefaultConfig ==
    [set |-> TRUE, user_overrides |-> <<>>, project_overrides |-> <<>>,
     defaults |-> [cost_rate |-> 0, billable_rate |-> Undefined]]

\* A warning of the service: its kind and the id of the user it names.
ConfigLoadWarning == <<"failed_to_load_rates_json", 0>>
NoCostRateConfigured(user) == <<"has_no_cost_rate_configured", user.id>>

\* RatesService.loadConfig: what it returns, this.config and this.warnings
\* after it.
LoadConfig(config, file, warnings) ==
    IF config.set THEN [loaded |-> TRUE, config |-> config, warnings |-> warnings]
    ELSE IF ~file.exists
    THEN [loaded |-> FALSE, config |-> DefaultConfig, warnings |-> warnings]
    ELSE IF ~file.parses
    THEN [loaded |-> FALSE, config |-> DefaultConfig,
          warnings |-> Append(warnings, ConfigLoadWarning)]
    ELSE [loaded |-> TRUE,
          config |-> [set |-> TRUE, user_overrides |-> file.user_overrides,
                      project_overrides |-> file.project_overrides,
                      defaults |->
                          [cost_rate |-> IF file.defaults.cost_rate.defined
                                         THEN file.defaults.cost_rate.value ELSE 0,
                           billable_rate |-> file.defaults.billable_rate]],
          warnings |-> warnings]

\* A RateInfo, and the null resolveRate returns when no tier has a value.
RateInfo(rate, source, source_detail) ==
    [rate |-> rate, source |-> source, source_detail |-> source_detail]
NoRateInfo == RateInfo(0, "none", "none")

\* RatesService.resolveRate
ResolveRate(apiValue, configOverride, defaultValue, apiSource, defaultCostRate) ==
    IF apiValue.defined THEN RateInfo(apiValue.value, "harvest_api", apiSource)
    ELSE IF configOverride.defined THEN RateInfo(configOverride.value, "config_file", "configPath")
    ELSE IF defaultValue.defined
    THEN RateInfo(defaultValue.value,
                  IF defaultCostRate > 0 THEN "env_default" ELSE "fallback_zero",
                  IF defaultCostRate > 0 THEN "DEFAULT_COST_RATE" ELSE "none")
    ELSE NoRateInfo

\* this.config?.user_overrides[String(id)]?.cost_rate and its like for projects
OverrideOf(overrides, id, field) ==
    IF id \in DOMAIN overrides THEN overrides[id][field] ELSE Undefined

\* RatesService.mapUserToRate: the UserRate and the warnings it pushes.
MapUserToRate(user, config, defaultCostRate) ==
    LET defaultCost == IF config.set THEN config.defaults.cost_rate ELSE defaultCostRate
        costRate == ResolveRate(user.cost_rate, OverrideOf(config.user_overrides, user.id, "cost_rate"),
                                Given(defaultCost), "user.cost_rate", defaultCostRate)
    IN  [rate |-> [user_id |-> user.id, cost_rate |-> costRate,
                   default_hourly_rate |->
                       IF user.default_hourly_rate.defined /\ user.default_hourly_rate.value # 0
                       THEN RateInfo(user.default_hourly_rate.value, "harvest_api",
                                     "user.default_hourly_rate")
                       ELSE NoRateInfo],
         warnings |-> IF costRate.source = "fallback_zero"
                      THEN <<NoCostRateConfigured(user)>> ELSE <<>>]

\* RatesService.mapProjectToRate
MapProjectToRate(project, config, defaultCostRate) ==
    [project_id |-> project.id,
     hourly_rate |->
         IF project.is_billable
         THEN ResolveRate(project.hourly_rate,
                          OverrideOf(config.project_overrides, project.id, "hourly_rate"),
                          config.defaults.billable_rate, "project.hourly_rate",
                          defaultCostRate)
         ELSE NoRateInfo,
     is_billable |-> project.is_billable]

\* The concatenation of the sequences of a sequence.
RECURSIVE Flatten(_)
Flatten(seqs) == IF seqs = <<>> THEN <<>> ELSE Head(seqs) \o Flatten(Tail(seqs))

\* RatesService.getUserRates for the users getUser or listUsers returned.
GetUserRates(users, config, defaultCostRate) ==
    LET mapped == [i \in 1 .. Len(users) |-> MapUserToRate(users[i], config, defaultCostRate)]
    IN  [results |-> [i \in 1 .. Len(users) |-> mapped[i].rate],
         warnings |-> Flatten([i \in 1 .. Len(users) |-> mapped[i].warnings])]

\* RatesService.getProjectRates for the projects the upstream returned.
GetProjectRates(projects, config, defaultCostRate) ==
    [i \in 1 .. Len(projects) |-> MapProjectToRate(projects[i], config, defaultCostRate)]

\* What getUser(id) or listUsers({ is_active: true }) gives of the directory.
UsersAsked(directory, user_id) ==
    IF user_id.defined THEN SelectSeq(directory, LAMBDA u : u.id = user_id.value)
    ELSE SelectSeq(directory, LAMBDA u : u.is_active)

VARIABLES
    ratesService   \* a RatesService: DEFAULT_COST_RATE and the rates.json of its
                   \*   construction, its config and warnings, the getRates calls
                   \*   made on it and the response of the last one

ratesVars == <<ratesService>>

NoRatesResponse ==
    [state |-> "none", config_loaded |-> FALSE, users |-> <<>>, projects |-> <<>>,
     has_users |-> FALSE, has_projects |-> FALSE, warnings |-> <<>>]
NoRatesService ==
    [pc |-> "none", file |-> RatesFile(FALSE, FALSE, <<>>, <<>>, Undefined, Undefined),
     defaultCostRate |-> 0, config |-> NullConfig, warnings |-> <<>>, calls |-> 0,
     response |-> NoRatesResponse]

\* new RatesService(client, configDir) with DEFAULT_COST_RATE in the environment
NewRatesService(file, defaultCostRate) ==
    /\ ratesService.pc = "none"
    /\ ratesService' = [NoRatesService EXCEPT !.pc = "ready", !.file = file,
                                              !.defaultCostRate = defaultCostRate]

\* RatesService.getRates(params) on the directory of the upstream.
GetRates(params, users, projects) ==
    /\ ratesService.pc = "ready"
    /\ ratesService.calls < MaxCalls
    /\ LET loaded == LoadConfig(ratesService.config, ratesService.file, <<>>)
           bothAsked == /\ ~params.user_id.defined /\ ~params.project_id.defined
                        /\ ~params.include_all_users /\ ~params.include_all_projects
           wantUsers == params.user_id.defined \/ params.include_all_users \/ bothAsked
           wantProjects == params.project_id.defined \/ params.include_all_projects \/ bothAsked
           userRates == GetUserRates(UsersAsked(users, params.user_id), loaded.config,
                                     ratesService.defaultCostRate)
           projectRates ==
               GetProjectRates(IF params.project_id.defined
                               THEN SelectSeq(projects, LAMBDA p : p.id = params.project_id.value)
                               ELSE projects,
                               loaded.config, ratesService.defaultCostRate)
           warnings == loaded.warnings \o (IF wantUsers THEN userRates.warnings ELSE <<>>)
       IN  ratesService' = [ratesService EXCEPT
                        !.config = loaded.config,
                        !.warnings = warnings,
                        !.calls = @ + 1,
                        !.response =
                            [state |-> "returned", config_loaded |-> loaded.loaded,
                             has_users |-> wantUsers, has_projects |-> wantProjects,
                             users |-> IF wantUsers THEN userRates.results ELSE <<>>,
                             projects |-> IF wantProjects THEN projectRates ELSE <<>>,
                             warnings |-> warnings]]

\* getRates whose call of the upstream is rejected: the config is loaded, the
\* warnings of the load stay in the service, and the call throws.
GetRatesRejected(params) ==
    /\ ratesService.pc = "ready"
    /\ ratesService.calls < MaxCalls
    /\ LET loaded == LoadConfig(ratesService.config, ratesService.file, <<>>)
       IN  ratesService' = [ratesService EXCEPT !.config = loaded.config, !.warnings = loaded.warnings,
                                  !.calls = @ + 1,
                                  !.response = [NoRatesResponse EXCEPT !.state = "rejected"]]

\* The service is dropped.
DropRatesService ==
    /\ ratesService.pc = "ready"
    /\ ratesService' = NoRatesService

\* The directory of the model's upstream: a user with a cost rate, two without.
RateUser(id, cost_rate, default_hourly_rate, is_active) ==
    [id |-> id, cost_rate |-> cost_rate, default_hourly_rate |-> default_hourly_rate,
     is_active |-> is_active]
RateUsers ==
    << RateUser(1, Given(50), Given(100), TRUE), RateUser(2, Undefined, Undefined, TRUE),
       RateUser(3, Undefined, Given(0), TRUE) >>
RateProjects ==
    << [id |-> 1, hourly_rate |-> Given(120), is_billable |-> TRUE],
       [id |-> 2, hourly_rate |-> Undefined, is_billable |-> TRUE],
       [id |-> 3, hourly_rate |-> Undefined, is_billable |-> FALSE] >>

\* The rates.json files: none, one that does not parse, an empty object, one
\* with an override for user 2 and project 2, one with default rates.
RatesFiles ==
    { RatesFile(FALSE, FALSE, <<>>, <<>>, Undefined, Undefined),
      RatesFile(TRUE, FALSE, <<>>, <<>>, Undefined, Undefined),
      RatesFile(TRUE, TRUE, <<>>, <<>>, Undefined, Undefined),
      RatesFile(TRUE, TRUE, [u \in {2} |-> [cost_rate |-> Given(20)]],
                [p \in {2} |-> [hourly_rate |-> Given(90)]], Undefined, Undefined),
      RatesFile(TRUE, TRUE, <<>>, <<>>, Given(30), Given(80)) }
\* parseFloat(process.env.DEFAULT_COST_RATE || '0')
DefaultCostRates == {0, 40}

GetRatesParams ==
    { [user_id |-> user_id, project_id |-> project_id, include_all_users |-> all_users,
       include_all_projects |-> all_projects] :
        user_id \in {Undefined, Given(2)}, project_id \in {Undefined, Given(2)},
        all_users \in BOOLEAN, all_projects \in BOOLEAN }

\* ------------------------------------------------------ getHarvestClient
\* One session as the tools hold it (the object handed to getHarvestClient) and
\* as the session store holds it under the session's id.
VARIABLE auth
authVars == <<auth>>

\* const bufferMs = 5 * 60 * 1000
BufferMs == 5 * 60 * 1000

\* The fields of a Session that getHarvestClient reads and writes;
\* tokenExpiresAt is kept as the time left until it.
SessionOf(accessToken, refreshToken, expiresLeft) ==
    [harvestAccessToken |-> accessToken, harvestRefreshToken |-> refreshToken,
     tokenExpiresLeft |-> expiresLeft]
\* A session before its authorization: no tokens, tokenExpiresAt = new Date().
NewSession == SessionOf("", "", 0)

TokenResponse(access_token, refresh_token, expires_in) ==
    [access_token |-> access_token, refresh_token |-> refresh_token, expires_in |-> expires_in]

NoHarvestClient == [present |-> FALSE, accessToken |-> ""]
HarvestClient(accessToken) == [present |-> TRUE, accessToken |-> accessToken]

\* now.getTime() + bufferMs >= expiresAt.getTime()
ExpiresWithinBuffer(session) == session.tokenExpiresLeft <= BufferMs

\* The three assignments after a resolved oauth.refreshToken.
WithNewTokens(session, newTokens) ==
    [session EXCEPT !.harvestAccessToken = newTokens.access_token,
                    !.harvestRefreshToken = newTokens.refresh_token,
                    !.tokenExpiresLeft = newTokens.expires_in * MsPerSecond]

WithClearedToken_Kept(session) == session
\* session.harvestAccessToken = '' of the catch block.
WithClearedToken(session) == [session EXCEPT !.harvestAccessToken = ""]

\* pc: "idle", "refreshing" (awaiting oauth.refreshToken), "returned".
\* dueAtCall: the access token was within the buffer when the call began.
\* failedSince: a refresh has failed and no authorization has followed it.
IdleAuth ==
    [pc |-> "idle", session |-> NewSession, stored |-> NewSession, client |-> NoHarvestClient,
     dueAtCall |-> FALSE, failedSince |-> FALSE]

\* getHarvestClient up to its first await or its return.
GetHarvestClientCalled ==
    /\ auth.pc # "refreshing"
    /\ auth' =
           IF auth.session.harvestAccessToken = ""
           THEN [auth EXCEPT !.pc = "returned", !.client = NoHarvestClient, !.dueAtCall = FALSE]
           ELSE IF ExpiresWithinBuffer(auth.session)
           THEN [auth EXCEPT !.pc = "refreshing", !.client = NoHarvestClient, !.dueAtCall = TRUE]
           ELSE [auth EXCEPT !.pc = "returned", !.dueAtCall = FALSE,
                             !.client = HarvestClient(auth.session.harvestAccessToken)]

\* oauth.refreshToken resolved: the session object gets the new tokens, the
\* store gets a copy of it, the client is built from the session's token.
RefreshTokenResolved(newTokens) ==
    /\ auth.pc = "refreshing"
    /\ LET session == WithNewTokens(auth.session, newTokens)
       IN  auth' = [auth EXCEPT !.pc = "returned", !.session = session, !.stored = session,
                                !.client = HarvestClient(session.harvestAccessToken)]

\* oauth.refreshToken rejected: the catch block.
RefreshTokenRejected ==
    /\ auth.pc = "refreshing"
    /\ LET session == WithClearedToken(auth.session)
       IN  auth' = [auth EXCEPT !.pc = "returned", !.session = session, !.stored = session,
                                !.client = NoHarvestClient, !.failedSince = TRUE]

\* GET /callback: the tokens of a completed authorization are written to the
\* stored session.
CallbackStoresTokens(tokens) ==
    /\ auth.pc # "refreshing"
    /\ auth' = [auth EXCEPT !.stored = WithNewTokens(auth.stored, tokens), !.failedSince = FALSE]

\* A request that builds its tools from the session it reads from the store.
SessionLoaded ==
    /\ auth.pc # "refreshing"
    /\ auth.session # auth.stored
    /\ auth' = [auth EXCEPT !.session = auth.stored]

\* The time left to tokenExpiresAt, followed until the refresh is due.
ExpiryAfter(session, d) ==
    IF ExpiresWithinBuffer(session) THEN session
    ELSE [session EXCEPT !.tokenExpiresLeft = @ - d]

\* ---------------------------------------------------- MemorySessionStore
\* The sessions Map and the stateToSessionId Map of one MemorySessionStore.
VARIABLE memoryStore
memoryVars == <<memoryStore>>

\* A Map as a function on the keys it holds.
EmptyMap == [k \in {} |-> 0]
MapSet(map, key, value) == [k \in DOMAIN map \cup {key} |-> IF k = key THEN value ELSE map[k]]
MapDelete(map, key) == [k \in DOMAIN map \ {key} |-> map[k]]

\* pendingOAuthState?: string
NoPendingState == [defined |-> FALSE, value |-> ""]
PendingState(state) == [defined |-> TRUE, value |-> state]
\* if (session.pendingOAuthState): neither undefined nor ''
IsPending(pending) == pending.defined /\ pending.value # ""

\* The fields of a Session the store and the callback read and write;
\* lastAccessedAt is kept as the time since it.
StoredSession(id, harvestAccessToken, pendingOAuthState, lastAccessedAge) ==
    [present |-> TRUE, id |-> id, harvestAccessToken |-> harvestAccessToken,
     pendingOAuthState |-> pendingOAuthState, lastAccessedAge |-> lastAccessedAge]
\* null, as get and getByOAuthState return it.
NullSession ==
    [present |-> FALSE, id |-> "", harvestAccessToken |-> "",
     pendingOAuthState |-> NoPendingState, lastAccessedAge |-> 0]

EmptyMemoryStore == [sessions |-> EmptyMap, stateToSessionId |-> EmptyMap]

\* this.sessions.get(sessionId) || null
MemoryGet(store, sessionId) ==
    IF sessionId \in DOMAIN store.sessions THEN store.sessions[sessionId] ELSE NullSession

\* this.sessions.set(sessionId, { ...session })
MemorySet(store, sessionId, session) ==
    [store EXCEPT !.sessions = MapSet(@, sessionId, session)]

MemoryDelete(store, sessionId) ==
    LET session == MemoryGet(store, sessionId)
    IN  [sessions |-> MapDelete(store.sessions, sessionId),
         stateToSessionId |->
             IF session.present /\ IsPending(session.pendingOAuthState)
             THEN MapDelete(store.stateToSessionId, session.pendingOAuthState.value)
             ELSE store.stateToSessionId]

MemoryTouch(store, sessionId) ==
    IF sessionId \in DOMAIN store.sessions
    THEN [store EXCEPT !.sessions[sessionId].lastAccessedAge = 0]
    ELSE store

MemorySetPendingAuth(store, sessionId, state) ==
    LET session == MemoryGet(store, sessionId)
    IN  IF ~session.present THEN store
        ELSE [sessions |->
                  [store.sessions EXCEPT ![sessionId].pendingOAuthState = PendingState(state)],
              stateToSessionId |->
                  MapSet(IF IsPending(session.pendingOAuthState)
                         THEN MapDelete(store.stateToSessionId, session.pendingOAuthState.value)
                         ELSE store.stateToSessionId,
                         state, sessionId)]

MemoryGetByOAuthState(store, state) ==
    IF state \notin DOMAIN store.stateToSessionId THEN NullSession
    ELSE MemoryGet(store, store.stateToSessionId[state])

\* cleanup: delete is called for every session last accessed more than
\* maxAgeMs ago; each delete runs to its end within the call.
MemoryCleanup(store, maxAgeMs) ==
    LET expired == {id \in DOMAIN store.sessions : store.sessions[id].lastAccessedAge > maxAgeMs}
        states == {store.sessions[id].pendingOAuthState.value : id \in
                      {e \in expired : IsPending(store.sessions[e].pendingOAuthState)}}
    IN  [sessions |-> [id \in DOMAIN store.sessions \ expired |-> store.sessions[id]],
         stateToSessionId |->
             [s \in DOMAIN store.stateToSessionId \ states |-> store.stateToSessionId[s]]]

SetCalled(sessionId, session) ==
    memoryStore' = MemorySet(memoryStore, sessionId, session)
DeleteCalled(sessionId) ==
    /\ sessionId \in DOMAIN memoryStore.sessions
    /\ memoryStore' = MemoryDelete(memoryStore, sessionId)
TouchCalled(sessionId) ==
    memoryStore' = MemoryTouch(memoryStore, sessionId)
SetPendingAuthCalled(sessionId, state) ==
    memoryStore' = MemorySetPendingAuth(memoryStore, sessionId, state)
CleanupCalled(maxAgeMs) ==
    memoryStore' = MemoryCleanup(memoryStore, maxAgeMs)

\* GET /callback for the session named in the state parameter: get hands out
\* the stored object, the handler assigns the tokens and clears
\* pendingOAuthState on it and stores it with set.
CallbackCompleted(sessionId, access_token) ==
    /\ MemoryGet(memoryStore, sessionId).present
    /\ LET session == [MemoryGet(memoryStore, sessionId) EXCEPT
                           !.harvestAccessToken = access_token,
                           !.pendingOAuthState = NoPendingState]
       IN  memoryStore' = MemorySet(memoryStore, sessionId, session)

\* The time since lastAccessedAt, followed up to cap.
SessionsAfter(store, d, cap) ==
    [sessions |->
         [id \in DOMAIN store.sessions |->
             [store.sessions[id] EXCEPT !.lastAccessedAge = Min(@ + d, cap)]],
     stateToSessionId |-> store.stateToSessionId]

\* -------------------------------------------------------- KVSessionStore
\* The KV namespace behind KVSessionStore, for one session id, and the two
\* requests of the Workers app that read and write it: an /mcp request that
\* touches the session and a /callback request that stores the tokens.
\* session: the value under 'session:' + id (NullSession when there is none);
\* the serialized form keeps every field (dates as ISO strings with their
\* milliseconds, an undefined pendingOAuthState left out and read as undefined).
\* oauthStates: the states with an 'oauth_state:' key.
VARIABLE kv
kvVars == <<kv>>

KvSessionId == "s1"
IdleKvRequest == [pc |-> "idle", session |-> NullSession]
EmptyKv ==
    [session |-> NullSession, oauthStates |-> {}, mcp |-> IdleKvRequest,
     callback |-> IdleKvRequest, setSinceRead |-> FALSE]

\* KVSessionStore.get: kv.get and deserializeSession.
KvGet(store) == store.session

\* KVSessionStore.set: kv.put of the whole serialized session, then the state
\* mapping when the session has a pending state.
KvSet(store, session) ==
    [store EXCEPT !.session = session,
                  !.oauthStates = IF IsPending(session.pendingOAuthState)
                                  THEN @ \cup {session.pendingOAuthState.value}
                                  ELSE @]

\* /authorize: a new session without tokens, with the client's parameters as
\* its pendingOAuthState, is stored.
AuthorizeStoresSession(state) ==
    /\ ~kv.session.present
    /\ kv' = KvSet(kv, StoredSession(KvSessionId, "", PendingState(state), 0))

\* app.all('/mcp'): session = await sessionStore.get(sessionId); without a
\* session the request ends with 401, with one it goes on to touch.
McpGetsSession ==
    /\ kv.mcp.pc = "idle"
    /\ kv.session.present
    /\ kv' = [kv EXCEPT !.mcp = [pc |-> "touch", session |-> KvGet(kv)]]

\* touch: const session = await this.get(sessionId)
TouchGets ==
    /\ kv.mcp.pc = "touch"
    /\ kv' = IF KvGet(kv).present
             THEN [kv EXCEPT !.mcp = [pc |-> "set", session |-> KvGet(kv)],
                             !.setSinceRead = FALSE]
             ELSE [kv EXCEPT !.mcp = IdleKvRequest]

\* touch: session.lastAccessedAt = new Date(); await this.set(sessionId, session)
TouchSets ==
    /\ kv.mcp.pc = "set"
    /\ kv' = [KvSet(kv, [kv.mcp.session EXCEPT !.lastAccessedAge = 0])
                 EXCEPT !.mcp = IdleKvRequest]

\* app.get('/callback'): const session = await sessionStore.get(...), followed
\* by the awaits of oauth.exchangeCode and oauth.getAccounts.
CallbackGetsSession ==
    /\ kv.callback.pc = "idle"
    /\ kv.session.present
    /\ kv' = [kv EXCEPT !.callback = [pc |-> "exchange", session |-> KvGet(kv)]]

\* app.get('/callback'): the tokens are assigned to the session read before,
\* pendingOAuthState is cleared and the session is stored.
CallbackSets(access_token) ==
    /\ kv.callback.pc = "exchange"
    /\ kv' = [KvSet(kv, [kv.callback.session EXCEPT !.harvestAccessToken = access_token,
                                                     !.pendingOAuthState = NoPendingState])
                 EXCEPT !.callback = IdleKvRequest, !.setSinceRead = TRUE]

\* The time since lastAccessedAt of the stored session and of the copies the
\* requests hold, followed up to cap.
KvAfter(store, d, cap) ==
    LET Aged(session) ==
            IF session.present THEN [session EXCEPT !.lastAccessedAge = Min(@ + d, cap)]
            ELSE session
    IN  [store EXCEPT !.session = Aged(@), !.mcp.session = Aged(@), !.callback.session = Aged(@)]

\* ------------------------------------------------------------------ time
AgeBy(age, d, cap) == Min(age + d, cap)
LeftAfter(left, d) == Max(left - d, 0)

\* TickMs milliseconds pass.  An age is followed up to the point where it
\* decides nothing more (the window, the ttl).
Tick ==
    /\ requestTimestamps' =
           [i \in 1 .. Len(requestTimestamps) |-> AgeBy(requestTimestamps[i], TickMs, WindowMs)]
    /\ retryAfterLeft' = LeftAfter(retryAfterLeft, TickMs)
    /\ cache' = [i \in 1 .. Len(cache) |->
                    [cache[i] EXCEPT !.age = AgeBy(@, TickMs, TtlMs),
                                     !.tsAge = AgeBy(@, TickMs, TtlMs)]]
    /\ task' = [t \in Tasks |-> [task[t] EXCEPT !.timer = LeftAfter(@, TickMs)]]
    /\ written' = [k \in DOMAIN written |->
                       IF written[k].set
                       THEN [written[k] EXCEPT !.age = AgeBy(@, TickMs, TtlMs)]
                       ELSE written[k]]
    /\ resolver' = IF resolver.snapshot.present
                   THEN [resolver EXCEPT !.snapshot.age = AgeBy(@, TickMs, CacheMaxAge)]
                   ELSE resolver
    /\ kv' = KvAfter(kv, TickMs, WindowMs)
    /\ memoryStore' = SessionsAfter(memoryStore, TickMs, WindowMs)
    /\ auth' = [auth EXCEPT !.session = ExpiryAfter(@, TickMs), !.stored = ExpiryAfter(@, TickMs)]
    /\ UNCHANGED <<apiCallsThisRequest, pg, probe, recency, keyed, permit, report, perf, ratesService,
                   call>>

\* --------------------------------------------------------- specification
vars ==
    <<requestTimestamps, retryAfterLeft, cache, task, apiCallsThisRequest, pg, probe, written,
      recency, keyed, permit, resolver, report, perf, ratesService, call, auth,
      memoryStore, kv>>
\* What a step of a request, of a pagination, of a direct call on the cache leaves alone.
notGateway == <<pgVars, probeVars, keyVars, permitVars, resolverVars, reportVars, perfVars, ratesVars, callVars, authVars, memoryVars, kvVars>>
notPaginate == <<limiterVars, cacheVars, clientVars, probeVars, keyVars, permitVars, resolverVars, reportVars, perfVars, ratesVars, callVars, authVars, memoryVars, kvVars>>
notProbe == <<limiterVars, clientVars, pgVars, keyVars, permitVars, resolverVars, reportVars, perfVars, ratesVars, callVars, authVars, memoryVars, kvVars>>
notKeys == <<limiterVars, cacheVars, clientVars, pgVars, probeVars, permitVars, resolverVars, reportVars, perfVars, ratesVars, callVars, authVars, memoryVars, kvVars>>
notLimiter == <<cacheVars, clientVars, pgVars, probeVars, keyVars, resolverVars, reportVars, perfVars, ratesVars, callVars, authVars, memoryVars, kvVars>>
notResolver ==
    <<limiterVars, cacheVars, clientVars, pgVars, probeVars, keyVars, permitVars, reportVars, perfVars, ratesVars, callVars, authVars, memoryVars, kvVars>>
notReport ==
    <<limiterVars, cacheVars, clientVars, pgVars, probeVars, keyVars, permitVars, resolverVars, perfVars, ratesVars, callVars, authVars, memoryVars, kvVars>>
notPerf ==
    <<limiterVars, cacheVars, clientVars, pgVars, probeVars, keyVars, permitVars, resolverVars,
      reportVars, ratesVars, callVars, authVars, memoryVars, kvVars>>
notRates ==
    <<limiterVars, cacheVars, clientVars, pgVars, probeVars, keyVars, permitVars, resolverVars,
      reportVars, perfVars, callVars, authVars, memoryVars, kvVars>>
notAuth ==
    <<limiterVars, cacheVars, clientVars, pgVars, probeVars, keyVars, permitVars, resolverVars,
      reportVars, perfVars, ratesVars, callVars, memoryVars, kvVars>>
notMemory ==
    <<limiterVars, cacheVars, clientVars, pgVars, probeVars, keyVars, permitVars, resolverVars,
      reportVars, perfVars, ratesVars, callVars, authVars, kvVars>>
notKv ==
    <<limiterVars, cacheVars, clientVars, pgVars, probeVars, keyVars, permitVars, resolverVars,
      reportVars, perfVars, ratesVars, callVars, authVars, memoryVars>>
notCall == <<pgVars, probeVars, keyVars, permitVars, resolverVars, reportVars, perfVars, ratesVars, authVars, memoryVars, kvVars>>

Init ==
    /\ requestTimestamps = <<>>
    /\ retryAfterLeft = 0
    /\ cache = <<>>
    /\ task = [t \in Tasks |-> IdleTask]
    /\ apiCallsThisRequest = [t \in Tasks |-> 0]
    /\ pg = IdlePaginate
    /\ probe = NoProbe
    /\ written = [k \in ProbeKeys |-> NeverWritten]
    /\ recency = <<>>
    /\ keyed = NotKeyed
    /\ permit = NoPermit
    /\ resolver = IdleResolver
    /\ report = NoReport
    /\ perf = NoPerformance
    /\ ratesService = NoRatesService
    /\ call = IdleCall
    /\ auth = IdleAuth
    /\ memoryStore = EmptyMemoryStore
    /\ kv = EmptyKv

\* One client whose calls of request follow one another.
Client == CHOOSE t \in Tasks : \A u \in Tasks : t <= u

Next ==
    \/ \E req \in Requests : StartRequest(Client, req) /\ UNCHANGED notGateway
    \/ PermitResolved(Client) /\ UNCHANGED notGateway
    \/ DelayElapsed(Client) /\ UNCHANGED notGateway
    \/ \E resp \in Responses : Receive(Client, resp) /\ UNCHANGED notGateway
    \/ RetryDelayElapsed(Client) /\ UNCHANGED notGateway
    \/ Tick

Spec == Init /\ [][Next]_vars

\* The steps of the client's call that the event loop runs once they are due:
\* a resolved await, an elapsed timer, a settled fetch.
ClientStep ==
    \/ PermitResolved(Client)
    \/ DelayElapsed(Client)
    \/ \E resp \in Responses : Receive(Client, resp)
    \/ RetryDelayElapsed(Client)

\* Time passes, due continuations run and every fetch settles.
FairSpec ==
    /\ Spec
    /\ WF_vars(Tick)
    /\ WF_vars(ClientStep /\ UNCHANGED notGateway)

\* Concurrent tasks, each with a client of its own on the shared limiter and
\* cache, each making one call.
ConcurrentRequests ==
    { Request("GET", PathC, NoParams, FALSE), Request("DELETE", PathC1, NoParams, FALSE) }
ConcurrentResponses ==
    { r \in Responses : r.kind = "neterr" \/ (r.status = 429 /\ r.retryAfter.present)
                        \/ (r.status = 200 /\ r.body = "d1") }

NextConcurrent ==
    \/ \E t \in Tasks, req \in ConcurrentRequests :
           task[t].pc = "idle" /\ StartRequest(t, req) /\ UNCHANGED notGateway
    \/ \E t \in Tasks : PermitResolved(t) /\ UNCHANGED notGateway
    \/ \E t \in Tasks : DelayElapsed(t) /\ UNCHANGED notGateway
    \/ \E t \in Tasks, resp \in ConcurrentResponses : Receive(t, resp) /\ UNCHANGED notGateway
    \/ \E t \in Tasks : RetryDelayElapsed(t) /\ UNCHANGED notGateway
    \/ Tick

SpecConcurrent == Init /\ [][NextConcurrent]_vars

\* The answers of the upstream to the calls that report _meta.
MetaRequests ==
    { Request("GET", PathC, NoParams, FALSE), PageRequest(1), Request("POST", PathP, NoParams, FALSE) }
MetaResponses ==
    { r \in Responses : r.kind = "neterr" \/ (r.status = 429 /\ r.retryAfter.present)
                        \/ r.status = 404 \/ (r.status = 200 /\ r.body = "d1") }

\* One client on which get and autoPaginate calls follow one another.
NextCall ==
    \/ \E req \in MetaRequests : GetCalled(Client, req) /\ UNCHANGED notCall
    \/ \E maxPages \in 1 .. MaxCalls, source \in 1 .. MaxCalls :
           AutoPaginateCalled(Client, maxPages, source) /\ UNCHANGED notCall
    \/ PermitResolved(Client) /\ CountSends(Client) /\ UNCHANGED notCall
    \/ DelayElapsed(Client) /\ CountSends(Client) /\ UNCHANGED notCall
    \/ \E resp \in MetaResponses : Receive(Client, resp) /\ CountSends(Client) /\ UNCHANGED notCall
    \/ RetryDelayElapsed(Client) /\ CountSends(Client) /\ UNCHANGED notCall
    \/ GetSettled(Client) /\ UNCHANGED notCall
    \/ AutoPaginateResumes(Client) /\ UNCHANGED notCall
    \/ Tick

SpecCall == Init /\ [][NextCall]_vars

\* Concurrent tasks as the event loop runs them: the continuation of a resolved
\* await acquirePermit() is a microtask, so it runs before the next timer, the
\* next settled fetch, the next incoming call or any passing of time.
NoPendingContinuation == \A u \in Tasks : task[u].pc # "permit"
EmbargoResponses == { Http(429, NoHeader, "none"), Http(200, NoHeader, "d1") }

NextEmbargo ==
    \/ \E t \in Tasks, req \in ConcurrentRequests :
           /\ NoPendingContinuation
           /\ task[t].pc = "idle"
           /\ StartRequest(t, req) /\ UNCHANGED notGateway
    \/ \E t \in Tasks : PermitResolved(t) /\ UNCHANGED notGateway
    \/ \E t \in Tasks : NoPendingContinuation /\ DelayElapsed(t) /\ UNCHANGED notGateway
    \/ \E t \in Tasks, resp \in EmbargoResponses :
           NoPendingContinuation /\ Receive(t, resp) /\ UNCHANGED notGateway
    \/ \E t \in Tasks : NoPendingContinuation /\ RetryDelayElapsed(t) /\ UNCHANGED notGateway
    \/ NoPendingContinuation /\ Tick

SpecEmbargo == Init /\ [][NextEmbargo]_vars

\* What Harvest's token endpoint answers: a token that is due for refresh as
\* soon as it is issued, and two that last one and two ticks longer than the
\* buffer.
TokenResponses ==
    { TokenResponse("a1", "r1", BufferMs \div MsPerSecond),
      TokenResponse("a2", "r2", (BufferMs + 2 * TickMs) \div MsPerSecond),
      TokenResponse("a3", "r3", (BufferMs + TickMs) \div MsPerSecond) }

\* One session: authorizations, calls of getHarvestClient one after the
\* other, requests that load the stored session, and time.
NextAuth ==
    \/ GetHarvestClientCalled /\ UNCHANGED notAuth
    \/ \E newTokens \in TokenResponses : RefreshTokenResolved(newTokens) /\ UNCHANGED notAuth
    \/ RefreshTokenRejected /\ UNCHANGED notAuth
    \/ \E tokens \in TokenResponses : CallbackStoresTokens(tokens) /\ UNCHANGED notAuth
    \/ SessionLoaded /\ UNCHANGED notAuth
    \/ Tick

SpecAuth == Init /\ [][NextAuth]_vars

SessionIds == {"s1", "s2"}
OAuthStates == {"x", "y"}
\* The sessions handed to set: without tokens or with, with a pending state or
\* without.
SetSessions(sessionId) ==
    { StoredSession(sessionId, token, pending, 0) :
        token \in {"", "a1"}, pending \in {NoPendingState} \cup {PendingState(s) : s \in OAuthStates} }

\* Calls on one MemorySessionStore, callbacks and time.
NextMemory ==
    \/ \E id \in SessionIds : \E session \in SetSessions(id) :
           SetCalled(id, session) /\ UNCHANGED notMemory
    \/ \E id \in SessionIds : DeleteCalled(id) /\ UNCHANGED notMemory
    \/ \E id \in SessionIds : TouchCalled(id) /\ UNCHANGED notMemory
    \/ \E id \in SessionIds, state \in OAuthStates :
           SetPendingAuthCalled(id, state) /\ UNCHANGED notMemory
    \/ CleanupCalled(TickMs) /\ UNCHANGED notMemory
    \/ \E id \in SessionIds : CallbackCompleted(id, "a2") /\ UNCHANGED notMemory
    \/ Tick

SpecMemory == Init /\ [][NextMemory]_vars

\* One session in KV: its authorization, /mcp requests that touch it and
\* /callback requests that store tokens in it, their KV operations
\* interleaved, and time.
NextKv ==
    \/ \E state \in OAuthStates : AuthorizeStoresSession(state) /\ UNCHANGED notKv
    \/ McpGetsSession /\ UNCHANGED notKv
    \/ TouchGets /\ UNCHANGED notKv
    \/ TouchSets /\ UNCHANGED notKv
    \/ CallbackGetsSession /\ UNCHANGED notKv
    \/ \E access_token \in {"a1", "a2"} : CallbackSets(access_token) /\ UNCHANGED notKv
    \/ Tick

SpecKv == Init /\ [][NextKv]_vars

\* One autoPaginate call over a list endpoint.
NextPaginate ==
    \/ \E maxPages \in 1 .. MaxPagesBound, perPage \in 1 .. MaxPerPage, total \in 0 .. MaxEntries :
           PaginateStart(maxPages, perPage, total) /\ UNCHANGED notPaginate
    \/ PageReceived /\ UNCHANGED notPaginate
    \/ \E err \in PageErrors : PageFailed(err) /\ UNCHANGED notPaginate

SpecPaginate == Init /\ [][NextPaginate]_vars

\* Direct calls on one HarvestCache while time passes.
NextCache ==
    \/ \E key \in ProbeKeys, data \in ProbeData : SetOp(key, data) /\ UNCHANGED notProbe
    \/ \E key \in ProbeKeys : GetOp(key) /\ UNCHANGED notProbe
    \/ \E key \in ProbeKeys : HasOp(key) /\ UNCHANGED notProbe
    \/ \E key \in ProbeKeys : GetAgeOp(key) /\ UNCHANGED notProbe
    \/ \E pattern \in Patterns : InvalidateOp(pattern) /\ UNCHANGED notProbe
    \/ ClearOp /\ UNCHANGED notProbe
    \/ GetStatsOp /\ UNCHANGED notProbe
    \/ Tick

SpecCache == Init /\ [][NextCache]_vars

\* Pairs of GET requests and the keys they get.
NextKeys ==
    \E path1 \in Paths, params1 \in ParamSets, path2 \in Paths, params2 \in ParamSets :
        KeyTwoRequests(path1, params1, path2, params2) /\ UNCHANGED notKeys

SpecKeys == Init /\ [][NextKeys]_vars

\* Direct calls on one HarvestRateLimiter while time passes.
NextLimiter ==
    \/ AcquirePermitOp /\ UNCHANGED notLimiter
    \/ RecordRequestOp /\ UNCHANGED notLimiter
    \/ \E seconds \in RetrySeconds : HandleRateLimitOp(seconds) /\ UNCHANGED notLimiter
    \/ GetStatusOp /\ UNCHANGED notLimiter
    \/ ResetOp /\ UNCHANGED notLimiter
    \/ Tick

SpecLimiter == Init /\ [][NextLimiter]_vars

\* resolve calls on a resolver whose upstream is the small directory.
NextResolve ==
    \/ \E params \in MatchParams : ResolveStart(params) /\ UNCHANGED notResolver
    \/ RefreshDone(NamedDirectory) /\ UNCHANGED notResolver
    \/ \E err \in RefreshErrors : RefreshFailed(err) /\ UNCHANGED notResolver
    \/ ClearCacheOp /\ UNCHANGED notResolver
    \/ Tick

SpecResolve == Init /\ [][NextResolve]_vars

\* resolve calls on a resolver whose upstream is the small or the large directory.
NextSnapshot ==
    \/ \E params \in SnapshotParams : ResolveStart(params) /\ UNCHANGED notResolver
    \/ \E upstream \in {NamedDirectory, LargeDirectory} :
           RefreshDone(upstream) /\ UNCHANGED notResolver
    \/ \E err \in RefreshErrors : RefreshFailed(err) /\ UNCHANGED notResolver
    \/ ClearCacheOp /\ UNCHANGED notResolver
    \/ Tick

SpecSnapshot == Init /\ [][NextSnapshot]_vars

\* Calls of the three calculators on the records of the pool.
NextReport ==
    \/ \E params \in ProfitabilityParams, entries \in EntryLists, rates \in RateTables :
           \E invoices \in IF params.mode = "time_based" THEN {<<>>} ELSE InvoiceLists :
               CalculateProfitability(params, entries, invoices, rates) /\ UNCHANGED notReport
    \/ \E params \in UtilizationParams, entries \in EntryLists, utcOffset \in UtcOffsets :
           CalculateUtilization(params, EntriesOfUser(entries, params.user_id), utcOffset)
               /\ UNCHANGED notReport
    \/ \E params \in AggregationParams, entries \in EntryLists :
           Aggregate(params, entries) /\ UNCHANGED notReport
    \/ TakeReport /\ UNCHANGED notReport

SpecReport == Init /\ [][NextReport]_vars

\* Calls of the budget performance calculator on the records of its pool.
NextBudget ==
    \/ \E params \in BudgetParamsSet, entries \in BudgetEntryLists, projectMap \in ProjectMaps :
           CalculateBudgetPerformance(params, entries, projectMap) /\ UNCHANGED notPerf
    \/ \E params \in CrowdParamsSet, entries \in CrowdEntryLists, projectMap \in ProjectMaps :
           CalculateBudgetPerformance(params, entries, projectMap) /\ UNCHANGED notPerf
    \/ TakePerformance /\ UNCHANGED notPerf

SpecBudget == Init /\ [][NextBudget]_vars

\* A rates service and the getRates calls made on it.
NextRates ==
    \/ \E file \in RatesFiles, defaultCostRate \in DefaultCostRates :
           NewRatesService(file, defaultCostRate) /\ UNCHANGED notRates
    \/ \E params \in GetRatesParams : GetRates(params, RateUsers, RateProjects) /\ UNCHANGED notRates
    \/ \E params \in GetRatesParams : GetRatesRejected(params) /\ UNCHANGED notRates
    \/ DropRatesService /\ UNCHANGED notRates

SpecRates == Init /\ [][NextRates]_vars

\* ================================================================ claims

\* The timestamps of the limiter that lie in the trailing window of windowMs.
InWindow == Len(SelectAges(requestTimestamps, WindowMs))

\* C1: whatever the interleaving of the tasks that share the limiter, each
\* calling acquirePermit, waiting the returned time, then recordRequest, the
\* number of recorded requests in the trailing window never exceeds maxRequests.
C1_WindowNeverExceedsMax == InWindow <= MaxRequests

\* The items of the first n pages of the source, in page order.
FirstItems(total, n, perPage) == [i \in 1 .. Min(total, n * perPage) |-> i]

PgCapped == SourceTotalPages(pg.source, pg.perPage) > pg.maxPages

\* C2: when the upstream has more pages than maxPages, autoPaginate fetches
\* exactly maxPages pages, returns the items of pages 1..maxPages and reports
\* pages_fetched = maxPages, the number of pages it fetched.
C2_CappedReportsPagesFetched ==
    (pg.pc = "done" /\ PgCapped) =>
        /\ pg.received = pg.maxPages
        /\ pg.result.items = FirstItems(pg.source, pg.maxPages, pg.perPage)
        /\ pg.result.pages_fetched = pg.maxPages

\* C3: when the upstream's total_pages is at most maxPages, autoPaginate stops
\* after the last page (whose next_page is null) and returns every page's items
\* in page order, the upstream's total_entries, and pages_fetched equal to the
\* number of pages fetched.
C3_UncappedResult ==
    (pg.pc = "done" /\ ~PgCapped) =>
        /\ pg.received = Max(1, SourceTotalPages(pg.source, pg.perPage))
        /\ pg.requested = [i \in 1 .. pg.received |-> i]
        /\ pg.result.state = "returned"
        /\ pg.result.items = [i \in 1 .. pg.source |-> i]
        /\ pg.result.total_entries = pg.source
        /\ pg.result.pages_fetched = pg.received

\* Three pages of a five-entry source have been fetched and returned whole.
C3_Witness ==
    /\ pg.pc = "done"
    /\ ~PgCapped
    /\ pg.received = 3
    /\ Len(pg.result.items) = 5

\* A page fetch that failed has ended the call with its error and no items, and
\* a returned result is one whose every requested page arrived.
C4_FailureState ==
    /\ (Len(pg.requested) > pg.received /\ pg.pc # "await") =>
           /\ pg.pc = "failed"
           /\ pg.result.state = "thrown"
           /\ pg.result.error = pg.rejected
           /\ pg.result.error \in PageErrors
           /\ pg.result.items = <<>>
    /\ pg.result.state = "returned" => Len(pg.requested) = pg.received

\* C4: if the fetch of any page fails, first or later, autoPaginate fails with
\* that error, fetches no further page (a failed call takes no further step)
\* and returns no result that holds the items accumulated so far.
C4_AllOrNothing ==
    /\ []C4_FailureState
    /\ [][pg.pc = "failed" => pg' = pg]_vars

\* The third page failed after two pages had been accumulated.
C4_Witness ==
    /\ pg.pc = "failed"
    /\ pg.received = 2
    /\ Len(pg.allItems) > 0

\* The error the attempt that received resp leaves in lastError.
ErrorOf(resp, at) ==
    IF resp.kind = "neterr" THEN FetchError(at)
    ELSE IF resp.status = 429 THEN HarvestApiError(429, "none", at)
    ELSE JsonError(at)

\* A call has made at most maxRetries sends, and one that failed by running out
\* of attempts made exactly maxRetries and threw the error of the last one.
C5_BoundedSends ==
    LET a == task[Client] IN
    /\ a.sends <= MaxRetries
    /\ (a.pc = "failed" /\ ~IsFatal(a.result.error)) =>
           /\ a.sends = MaxRetries
           /\ a.result.state = "thrown"
           /\ a.result.error = ErrorOf(a.resp, MaxRetries - 1)

\* A call in progress ends: it returns or it throws.
C5_Ends ==
    (task[Client].pc \in {"permit", "delay", "fetch", "retryDelay"})
        ~> (task[Client].pc \in {"done", "failed"})

\* C5: one call of request makes at most maxRetries sends and always ends;
\* after maxRetries unsuccessful attempts (429s, network failures) it throws
\* the last error observed.
C5_BoundedAndEnds == []C5_BoundedSends /\ C5_Ends

\* A call has thrown the network error of its third and last attempt.
C5_Witness ==
    LET a == task[Client] IN
    /\ a.pc = "failed"
    /\ a.sends = MaxRetries
    /\ a.result.error.name = "TypeError"

\* The step that receives a 429 sets the embargo and the delay to the
\* Retry-After seconds and surfaces nothing; the step after the delay starts
\* the next attempt, or throws the 429 when no attempt is left.
C6_OnRateLimit ==
    LET a == task[Client]
        b == task'[Client]
        seconds == IF b.resp.retryAfter.present THEN b.resp.retryAfter.seconds
                   ELSE DefaultRetryAfter
    IN
    /\ (a.pc = "fetch" /\ b.pc # "fetch" /\ b.resp.kind = "http" /\ b.resp.status = 429) =>
           /\ b.pc = "retryDelay"
           /\ retryAfterLeft' = seconds * MsPerSecond
           /\ b.timer = seconds * MsPerSecond
           /\ b.result.state = "none"
    /\ (a.pc = "retryDelay" /\ b.pc # "retryDelay") =>
           /\ a.timer = 0
           /\ IF a.attempt + 1 < MaxRetries
              THEN b.pc = "permit" /\ b.attempt = a.attempt + 1 /\ b.result.state = "none"
              ELSE b.pc = "failed" /\ b.result.error.statusCode = 429

\* An error with statusCode 429 is thrown only after maxRetries sends, and a
\* call that ends with a response returns it as a plain success.
C6_Surfaced ==
    LET a == task[Client] IN
    /\ (a.result.state = "thrown" /\ a.result.error.statusCode = 429) =>
           a.sends = MaxRetries
    /\ (a.pc = "done" /\ ~a.result.cached) =>
           /\ a.result.state = "returned"
           /\ a.result.error = NoError
           /\ a.result.data = IF a.resp.status = 204 THEN "undefined" ELSE a.resp.body

\* C6: a 429 is not surfaced while retry budget remains: on each 429 the client
\* calls handleRateLimit with the Retry-After seconds (15 without the header),
\* waits that long and goes on to the next attempt; a later success is returned
\* as a normal success; an error with statusCode 429 reaches the caller only
\* after maxRetries attempts.
C6_RateLimitRetried == []C6_Surfaced /\ [][C6_OnRateLimit]_vars

\* A call that was rate limited on an earlier attempt has returned a success.
C6_Witness ==
    LET a == task[Client] IN
    /\ a.pc = "done"
    /\ a.lastError.statusCode = 429
    /\ a.result.data = "d1"

\* The step that receives an error status throws at once, leaving the cache
\* and the limiter's window alone; a call that has thrown takes no further step.
C7_OnErrorStatus ==
    LET a == task[Client]
        b == task'[Client]
    IN
    /\ (a.pc = "fetch" /\ b.pc # "fetch" /\ b.resp.kind = "http"
            /\ ~(b.resp.status >= 200 /\ b.resp.status <= 299) /\ b.resp.status # 429) =>
           /\ b.pc = "failed"
           /\ b.result = Thrown(HarvestApiError(b.resp.status, b.resp.body, a.attempt))
           /\ b.sends = a.sends
           /\ cache' = cache
           /\ requestTimestamps' = requestTimestamps
    /\ (a.pc = "failed" /\ b.calls = a.calls) => b = a

\* C7: a response with a non-2xx status other than 429 makes request fail at
\* once with a HarvestApiError carrying that status and body: no further send
\* for that call, no cache entry written, none invalidated.
C7_ErrorStatusIsFatal == [][C7_OnErrorStatus]_vars

\* The second attempt of a call was answered 404 after the first was rate limited,
\* with an entry in the cache.
C7_Witness ==
    LET a == task[Client] IN
    /\ a.pc = "failed"
    /\ a.result.error.statusCode = 404
    /\ a.sends = 2
    /\ cache # <<>>

\* C8: after a non-GET request has completed successfully, with any success
\* status, 204 included, the cache holds no entry whose path starts with the
\* top-level resource segment of the request path.
C8_WriteInvalidatesResource ==
    LET a == task[Client] IN
    (a.pc = "done" /\ ~IsGetRequest(a.req)) =>
        \A i \in 1 .. Len(cache) :
            ~StartsWith(KeyString(cache[i].key), ResourcePattern(a.req.path))

\* Every entry of the cache after a step was there before it, with the same
\* data and no newer timestamp, or is the response a cacheable GET just received.
C9_OnlyGetSuccessWrites ==
    LET a == task[Client]
        b == task'[Client]
    IN
    \A i \in 1 .. Len(cache') :
        LET e == cache'[i] IN
        \/ \E j \in 1 .. Len(cache) :
               /\ cache[j].key = e.key
               /\ cache[j].data = e.data
               /\ cache[j].tsAge <= e.tsAge
        \/ /\ a.pc = "fetch"
           /\ b.pc = "done"
           /\ a.req.method = "GET"
           /\ ~a.req.skipCache
           /\ b.resp.kind = "http"
           /\ b.resp.status \in {200, 201}
           /\ b.resp.body \in {"d1", "d2"}
           /\ e.key = GenerateKey(a.req.path, a.req.params)
           /\ e.data = b.resp.body
           /\ e.tsAge = 0

\* C9: an entry is written to the cache only when a GET without skipCache
\* receives a successful JSON response, under the key of its path and params;
\* 429s, error responses, failed sends, 204s and non-GET requests add or
\* overwrite nothing.
C9_CacheWrittenOnlyByGet == [][C9_OnlyGetSuccessWrites]_vars

\* A GET has just stored its response while another entry was in the cache.
C9_Witness ==
    LET a == task[Client] IN
    /\ a.pc = "done"
    /\ a.req.method = "GET"
    /\ ~a.result.cached
    /\ Len(cache) = 2
    /\ cache[2].key = GenerateKey(a.req.path, a.req.params)
    /\ cache[2].tsAge = 0

\* C10: a cache entry is visible exactly while it is younger than the ttl:
\* set(k, v) followed at once by get(k) returns v and getAge(k) is 0; every
\* entry a get returns was stored less than ttlMs ago; once ttlMs has elapsed
\* since the last set of k, get(k) misses, has(k) is false and getAge(k) is
\* undefined; reading an entry never extends its lifetime.
C10_VisibleWhileYoung ==
    probe.op \in {"get", "has", "getAge"} =>
        /\ probe.hit =>
               /\ probe.wasSet
               /\ probe.since < TtlMs
               /\ probe.op = "get" => probe.data = probe.setData
               /\ probe.op = "getAge" => probe.seconds = probe.since \div MsPerSecond
        /\ (probe.wasSet /\ probe.since >= TtlMs) => ~probe.hit
        /\ probe.afterSet =>
               /\ probe.hit
               /\ probe.op = "get" => probe.data = probe.setData
               /\ probe.op = "getAge" => probe.seconds = 0

\* A get of a key whose ttl has elapsed since its set misses, while a younger
\* entry of another key is still in the cache.
C10_Witness ==
    /\ probe.op = "get"
    /\ probe.wasSet
    /\ probe.since >= TtlMs
    /\ ~probe.hit
    /\ \E i \in 1 .. Len(cache) : cache[i].age > 0 /\ cache[i].age < TtlMs

\* The keys stored in the cache, and the place of a key in the order of use.
StoredKeys == {cache[i].key : i \in 1 .. Len(cache)}
UseRank(key) == CHOOSE i \in 1 .. Len(recency) : recency[i] = key

\* A set leaves room: it drops another key's entry only when the key is new and
\* the cache is full, and then exactly the least recently used one, stale or not.
C11_SetEvictsLru ==
    \A key \in ProbeKeys, data \in ProbeData :
        SetOp(key, data) =>
            LET gone == {probe'.dropped[i].key : i \in 1 .. Len(probe'.dropped)} IN
            IF key \notin StoredKeys /\ Len(cache) >= MaxSize
            THEN /\ Cardinality(gone) = 1
                 /\ \A g \in gone, k \in StoredKeys : UseRank(g) <= UseRank(k)
            ELSE gone = {}

\* The cache never holds more than maxSize entries, no key twice, and the size
\* getStats reports is the number of entries stored.
C11_Bounded ==
    /\ Len(cache) <= MaxSize
    /\ Cardinality(StoredKeys) = Len(cache)
    /\ probe.op = "getStats" => probe.size = Len(cache)

\* C11: after any sequence of set, get, invalidate and clear calls the cache
\* holds at most maxSize entries; a set of a new key into a full cache evicts
\* the least recently used entry, whether or not its ttl has expired;
\* getStats().size is the number of stored entries.
C11_AtMostMaxSizeLruEvicted == []C11_Bounded /\ [][C11_SetEvictsLru]_vars

\* A set into a full cache has evicted an entry whose ttl had not expired while
\* an expired, more recently used entry stayed.
C11_Witness ==
    /\ probe.op = "set"
    /\ Len(probe.dropped) = 1
    /\ probe.dropped[1].age < TtlMs
    /\ Len(cache) = MaxSize
    /\ \E i \in 1 .. Len(cache) : cache[i].age >= TtlMs

\* The keys of the direct calls that each pattern of the direct calls matches:
\* /c is part of /c:... and /cs:..., cs of /cs:..., and only /p:... starts with /p.
MatchedBy(pattern) ==
    IF pattern = StringPattern(PathC)
    THEN {GenerateKey(PathC, NoParams), GenerateKey(PathCs, NoParams)}
    ELSE IF pattern = StringPattern(<<"c", "s">>) THEN {GenerateKey(PathCs, NoParams)}
    ELSE {GenerateKey(PathP, NoParams)}

\* C12: invalidate(pattern) deletes exactly the stored keys that contain the
\* string pattern (or match the RegExp), returns the number of keys deleted, and
\* leaves every other key with its value and age unchanged.
C12_InvalidateExact ==
    [][\A pattern \in Patterns :
          InvalidateOp(pattern) =>
              /\ cache' = SelectSeq(cache, LAMBDA e : e.key \notin MatchedBy(pattern))
              /\ probe'.count = Cardinality(StoredKeys \cap MatchedBy(pattern))]_vars

\* An invalidate has deleted one entry and kept another, stored some time ago.
C12_Witness ==
    /\ probe.op = "invalidate"
    /\ probe.count = 1
    /\ Len(cache) = 1
    /\ cache[1].age > 0

\* The defined parameter values of a request, whatever their order.
DefinedValues(params) == {UrlQuery(params)[i] : i \in 1 .. Len(UrlQuery(params))}

\* Two requests are logically identical: same path, same defined parameter values.
SameRequest ==
    /\ keyed.path1 = keyed.path2
    /\ DefinedValues(keyed.params1) = DefinedValues(keyed.params2)

\* C13: two logically identical GET requests, same path and same defined
\* parameter values in any key order, get the same cache key, so the second
\* is served the entry the first stored; requests that differ in path or in a
\* parameter value get different keys.
C13_SameRequestSameKey ==
    keyed.done =>
        IF SameRequest
        THEN keyed.key1 = keyed.key2 /\ keyed.served
        ELSE keyed.key1 # keyed.key2 /\ ~keyed.served

\* The ages, at the last acquirePermit, of the requests recorded within windowMs
\* before it, and the time until the oldest of them leaves the window.
RecentAges == {permit.window[i] : i \in {j \in 1 .. Len(permit.window) : permit.window[j] < WindowMs}}
RecentCount == Cardinality({j \in 1 .. Len(permit.window) : permit.window[j] < WindowMs})
UntilOldestLeaves == WindowMs - (CHOOSE a \in RecentAges : \A b \in RecentAges : b <= a)

RequestedTypes ==
    IF resolver.params.types.defined THEN resolver.params.types.value ELSE DefaultTypes
RequestedMinConfidence ==
    IF resolver.params.min_confidence.defined THEN resolver.params.min_confidence.value
    ELSE DefaultMinConfidence
RequestedLimit ==
    IF resolver.params.limit.defined THEN resolver.params.limit.value ELSE DefaultLimit

\* The resolve call has returned and the snapshot it searched is still held.
ResolveReturned ==
    resolver.pc = "done" /\ resolver.result.state = "returned" /\ resolver.snapshot.present

\* Every record of the searched snapshot that matches the query of the call: its
\* type is requested and its score reaches min_confidence.
AllMatches ==
    LET of(type, records) ==
            IF TypesInclude(RequestedTypes, type)
            THEN MatchesOf(type, records, resolver.params.query, RequestedMinConfidence)
            ELSE <<>>
    IN  of("client", resolver.snapshot.clients) \o of("project", resolver.snapshot.projects)
        \o of("user", resolver.snapshot.users) \o of("task", resolver.snapshot.tasks)

OfType(results, type) == SelectSeq(results, LAMBDA e : e.type = type)
Elements(s) == {s[i] : i \in 1 .. Len(s)}

\* C15: every entity resolve returns has a requested type and a confidence in
\* [0, 1] that is at least min_confidence (default 0.5); the results are in order
\* of non-increasing confidence; at most limit (default 5) entities of each type
\* are returned, and they are the highest-confidence matches of that type;
\* total_matches is the number of matches before the per-type cap.
C15_ResolveResultShape ==
    ResolveReturned =>
        LET results == resolver.result.results IN
        /\ \A i \in 1 .. Len(results) :
               /\ TypesInclude(RequestedTypes, results[i].type)
               /\ ScoreGeq(results[i].confidence, Score(0, 1))
               /\ ScoreGeq(Score(1, 1), results[i].confidence)
               /\ ScoreGeq(results[i].confidence, RequestedMinConfidence)
               /\ results[i] \in Elements(AllMatches)
        /\ \A i, j \in 1 .. Len(results) :
               i < j => ScoreGeq(results[i].confidence, results[j].confidence)
        /\ \A type \in Elements(DefaultTypes) :
               /\ Len(OfType(results, type)) =
                      Min(RequestedLimit, Len(OfType(AllMatches, type)))
               /\ \A kept \in Elements(OfType(results, type)) :
                      \A match \in Elements(OfType(AllMatches, type)) :
                          match \notin Elements(results)
                              => ScoreGeq(kept.confidence, match.confidence)
        /\ resolver.result.total_matches = Len(AllMatches)

\* A resolve has returned fewer entities than matched, two of them with
\* different confidences, from matches that the search loops found out of order.
C15_Witness ==
    /\ ResolveReturned
    /\ resolver.result.total_matches > Len(resolver.result.results)
    /\ Len(resolver.result.results) >= 2
    /\ ~ScoreEq(resolver.result.results[1].confidence,
                resolver.result.results[Len(resolver.result.results)].confidence)
    /\ \E i, j \in 1 .. Len(AllMatches) :
           i < j /\ ~ScoreGeq(AllMatches[i].confidence, AllMatches[j].confidence)

\* ---------------------------------------------------------------- C16
\* The (match_type, confidence) pair of an entity is the pair the tiers give for
\* the query against the text `target`.
TierPair(entity, target) ==
    LET sim == CalculateSimilarity(resolver.params.query, target)
    IN  entity.match_type = sim.matchType /\ ScoreEq(entity.confidence, sim.score)

\* The text a project is also matched against: "client - project".
FullNameOf(entity) == entity.parent_name \o <<" ", "-", " ">> \o entity.name

\* The entities of the returned response that are not projects carry the pair
\* the tiers give for their name.
NamePairsAreTierPairs ==
    ResolveReturned =>
        \A i \in 1 .. Len(resolver.result.results) :
            resolver.result.results[i].type # "project"
                => TierPair(resolver.result.results[i], resolver.result.results[i].name)

\* C16: for every entity resolve returns, the (match_type, confidence) pair is
\* the output of one tier of the pipeline (exact 1.0, normalized 0.95, partial
\* 0.7 + 0.2 * min/max, fuzzy max(0, 1 - distance/maxLen)), for its name or, for
\* a project, for its "client - project" name; confidence 1.0 is reported only
\* together with match_type exact.
C16_PairIsOneTier ==
    ResolveReturned =>
        \A i \in 1 .. Len(resolver.result.results) :
            LET entity == resolver.result.results[i] IN
            /\ \/ TierPair(entity, entity.name)
               \/ entity.type = "project" /\ TierPair(entity, FullNameOf(entity))
            /\ ScoreEq(entity.confidence, Score(1, 1)) => entity.match_type = "exact"

\* ---------------------------------------------------------------- C17
\* The ids of the records of a list.
Ids(records) == {records[i].id : i \in 1 .. Len(records)}

\* The resolve call in hand refreshed the snapshot and has returned.
Refreshed == ResolveReturned /\ resolver.fetched

\* The clients of the upstream are all in the snapshot a refresh has stored.
ClientsAllInSnapshot ==
    Refreshed => Ids(resolver.upstream.clients) \subseteq Ids(resolver.snapshot.clients)

\* C17: after a refresh the snapshot holds every client, project, user and task
\* record the upstream holds, those beyond the first page of 100 included, and
\* so resolve matches any existing record: a client whose name is the query is
\* among the results.
C17_SnapshotHoldsEveryRecord ==
    Refreshed =>
        /\ Ids(resolver.upstream.clients) \subseteq Ids(resolver.snapshot.clients)
        /\ Ids(resolver.upstream.projects) \subseteq Ids(resolver.snapshot.projects)
        /\ Ids(resolver.upstream.users) \subseteq Ids(resolver.snapshot.users)
        /\ Ids(resolver.upstream.tasks) \subseteq Ids(resolver.snapshot.tasks)
        /\ \A i \in 1 .. Len(resolver.upstream.clients) :
               resolver.upstream.clients[i].name = resolver.params.query
                   => \E k \in 1 .. Len(resolver.result.results) :
                          /\ resolver.result.results[k].type = "client"
                          /\ resolver.result.results[k].id = resolver.upstream.clients[i].id

\* ---------------------------------------------------------------- C18
\* A resolve call has returned a response.
ResponseReturned == resolver.pc = "done" /\ resolver.result.state = "returned"

\* C18: resolve reports cached = true exactly when the call was answered from
\* an already valid snapshot without fetching, and cached = false when the call
\* had to refresh the snapshot (first call, after clearCache, after the TTL).
C18_CachedIffNoFetch ==
    ResponseReturned => (resolver.result.cached <=> ~resolver.fetched)

\* What the code reports instead: cached is true in every response.
CachedAlwaysTrue == ResponseReturned => resolver.result.cached

\* ---------------------------------------------------------------- C20
\* A profitability call in the mode time_based has returned.
TimeBasedReturned ==
    /\ report.pc = "done"
    /\ report.response.calc = "profitability"
    /\ report.params.mode = "time_based"

\* The entries of the call that are billable, and those that count for cost.
BillableEntries == SelectSeq(report.entries, LAMBDA e : e.billable)
CostEntries ==
    SelectSeq(report.entries, LAMBDA e : e.billable \/ report.params.include_non_billable)

\* Revenue and cost as the sums of the products, in thousandths.
RevenueSum ==
    SumSeq([i \in 1 .. Len(BillableEntries) |->
               BillableEntries[i].hours * BillableRateOf(BillableEntries[i])])
CostSum ==
    SumSeq([i \in 1 .. Len(CostEntries) |->
               CostEntries[i].hours * CostRateOf(CostEntries[i], report.rateMap)])

\* The one entry {hours 10, billable, billable_rate 100, cost_rate 50}.
ExampleEntry ==
    /\ Len(report.entries) = 1
    /\ report.entries[1].hours = 10 * HoursScale
    /\ report.entries[1].billable
    /\ report.entries[1].billable_rate = Given(100 * (AmountScale \div HoursScale))
    /\ report.entries[1].cost_rate = Given(50 * (AmountScale \div HoursScale))

\* C20: in time_based mode, revenue (billable_amount) is the sum over the
\* billable entries of hours * billable_rate, cost is the sum of hours *
\* cost_rate over the billable entries, plus the non-billable entries only when
\* include_non_billable is set, and profit is revenue - cost, each reported to
\* two decimals; the entry {hours 10, billable, billable_rate 100, cost_rate 50}
\* gives revenue 1000, cost 500, profit 500 and margin 50.
C20_TimeBasedSums ==
    TimeBasedReturned =>
        /\ report.response.totals.billable_amount = Round(RevenueSum, AmountScale)
        /\ report.response.totals.cost = Round(CostSum, AmountScale)
        /\ report.response.totals.profit = Round(RevenueSum - CostSum, AmountScale)
        /\ ExampleEntry =>
               /\ report.response.totals.billable_amount = 1000 * 100
               /\ report.response.totals.cost = 500 * 100
               /\ report.response.totals.profit = 500 * 100
               /\ report.response.totals.margin_percent = 50 * 100

\* A time_based call on the example entry alone has returned.
C20_Witness == TimeBasedReturned /\ ExampleEntry

\* A time_based call without include_non_billable has returned for entries of
\* which one is not billable and has a cost rate above 0.
C20_NonBillableLeftOut ==
    /\ TimeBasedReturned
    /\ ~report.params.include_non_billable
    /\ \E i \in 1 .. Len(report.entries) :
           /\ ~report.entries[i].billable
           /\ report.entries[i].hours * CostRateOf(report.entries[i], report.rateMap) > 0
    /\ report.response.totals.cost > 0

\* ---------------------------------------------------------------- C19
\* A calculator has returned a response.
ReportReturned == report.pc = "done"

\* The records the totals of the response were computed from.
TotalRecords ==
    IF report.params.billable_only THEN SelectSeq(report.entries, LAMBDA e : e.billable)
    ELSE report.entries

\* The additive metrics of a calculator's nodes.
AdditiveMetrics ==
    CASE report.response.calc = "profitability" ->
             {"hours", "billable_hours", "billable_amount", "cost"}
      [] report.response.calc = "utilization" -> {"total_hours", "billable_hours"}
      [] report.response.calc = "aggregation" ->
             {"entry_count", "hours", "billable_hours", "billable_amount"}

\* The groups partition the records: each record is in exactly one group, and
\* the groups hold nothing else.
Partitions(groups, records) ==
    /\ \A i \in 1 .. Len(records) :
           Cardinality({k \in 1 .. Len(groups) : records[i] \in Elements(groups[k].records)}) = 1
    /\ \A k \in 1 .. Len(groups) : Elements(groups[k].records) \subseteq Elements(records)
    /\ SumSeq([k \in 1 .. Len(groups) |-> Len(groups[k].records)]) = Len(records)

\* The groups' values of a metric sum to `whole`.  Every value is reported to
\* two decimals, so the sum of the reported values may be off by half a
\* hundredth for each of the values it involves.
SumsTo(groups, field, whole) ==
    LET diff == SumSeq([k \in 1 .. Len(groups) |-> groups[k].metrics[field]]) - whole
    IN  /\ 2 * diff <= Len(groups) + 1
        /\ 2 * diff >= 0 - (Len(groups) + 1)

\* The groups partition the records and their additive metrics sum to the
\* metrics of the whole.
GroupsMakeUp(groups, records, metrics) ==
    /\ Partitions(groups, records)
    /\ \A field \in AdditiveMetrics : SumsTo(groups, field, metrics[field])

\* The same with sums of the reported values that are exact.
GroupsMakeUpExactly(groups, records, metrics) ==
    /\ Partitions(groups, records)
    /\ \A field \in AdditiveMetrics :
           SumSeq([k \in 1 .. Len(groups) |-> groups[k].metrics[field]]) = metrics[field]

\* C19: in every grouped result tree (profitability in its three modes,
\* utilization, time aggregation) and at every level, the children of a node
\* partition the node's records, each record in exactly one child, and the
\* children's additive metrics (entry count, hours, billable hours, billable
\* amount, cost) sum to the node's own; the top-level groups sum to the totals.
C19_ChildrenMakeUpNode ==
    (ReportReturned /\ report.params.group_by # <<>>) =>
        /\ GroupsMakeUp(report.response.grouped_results, TotalRecords, report.response.totals)
        /\ \A k \in 1 .. Len(report.response.grouped_results) :
               LET node == report.response.grouped_results[k] IN
               Len(report.params.group_by) > 1
                   => GroupsMakeUp(node.children, node.records, node.metrics)

\* The same for the calls that involve no invoices: time_based profitability,
\* utilization and time aggregation.
MakeUpWithoutInvoices ==
    (ReportReturned /\ report.params.group_by # <<>>
        /\ report.params.mode \notin {"invoice_based", "hybrid"}) =>
        /\ GroupsMakeUp(report.response.grouped_results, TotalRecords, report.response.totals)
        /\ \A k \in 1 .. Len(report.response.grouped_results) :
               LET node == report.response.grouped_results[k] IN
               Len(report.params.group_by) > 1
                   => GroupsMakeUp(node.children, node.records, node.metrics)

\* The same for those calls, with sums of the reported values that are exact.
MakeUpExactlyWithoutInvoices ==
    (ReportReturned /\ report.params.group_by # <<>>
        /\ report.params.mode \notin {"invoice_based", "hybrid"}) =>
        /\ GroupsMakeUpExactly(report.response.grouped_results, TotalRecords,
                               report.response.totals)
        /\ \A k \in 1 .. Len(report.response.grouped_results) :
               LET node == report.response.grouped_results[k] IN
               Len(report.params.group_by) > 1
                   => GroupsMakeUpExactly(node.children, node.records, node.metrics)

\* In every tree the children partition the records of their node.
ChildrenPartitionRecords ==
    (ReportReturned /\ report.params.group_by # <<>>) =>
        /\ Partitions(report.response.grouped_results, TotalRecords)
        /\ \A k \in 1 .. Len(report.response.grouped_results) :
               LET node == report.response.grouped_results[k] IN
               Len(report.params.group_by) > 1 => Partitions(node.children, node.records)

\* ---------------------------------------------------------------- C21
\* A profitability call has returned.
ProfitabilityReturned == report.pc = "done" /\ report.response.calc = "profitability"

\* The revenue of the call's mode before rounding, in thousandths: the
\* products of the billable entries, the invoices that are not drafts, or those
\* invoices and the products of the billable entries not yet billed.
UnbilledEntries == SelectSeq(BillableEntries, LAMBDA e : ~e.is_billed)
ModeRevenue ==
    CASE report.params.mode = "time_based" -> RevenueSum
      [] report.params.mode = "invoice_based" -> InvoicedAmount(report.invoices)
      [] report.params.mode = "hybrid" ->
             InvoicedAmount(report.invoices)
                 + SumSeq([i \in 1 .. Len(UnbilledEntries) |->
                              UnbilledEntries[i].hours * BillableRateOf(UnbilledEntries[i])])

C21_NoHours == ProfitabilityReturned /\ report.entries = <<>>

\* The margin is the one of the reported, rounded revenue and profit.
MarginOfReportedValues ==
    (ProfitabilityReturned /\ report.response.totals.billable_amount > 0) =>
        report.response.totals.margin_percent =
            RoundRatio(report.response.totals.profit, report.response.totals.billable_amount, 100)

\* ---------------------------------------------------------------- C22
\* The users of the call's entries, and those with an entry that is costed,
\* has hours, and has no cost rate of its own nor one in the rate table.
UsersOfCall == {report.entries[i].user : i \in 1 .. Len(report.entries)}
LacksCostRate(entry) ==
    /\ entry \in Elements(CostEntries)
    /\ entry.hours > 0
    /\ ~entry.cost_rate.defined
    /\ entry.user.id \notin DOMAIN report.rateMap
UsersLackingCostRate ==
    {u \in UsersOfCall : \E i \in 1 .. Len(report.entries) :
        report.entries[i].user = u /\ LacksCostRate(report.entries[i])}

\* The number of missing-cost-rate warnings of the response that name the user.
WarningsFor(user) ==
    Cardinality({i \in 1 .. Len(report.response.warnings) :
                    report.response.warnings[i] = NoCostRateWarning(user)})

\* C22: in every profitability mode the cost is that of the entries' own cost
\* rate, else the rate table's value for the user, else 0, and for each user
\* with a costed entry that has no cost rate available the warnings of the
\* response hold exactly one missing-cost-rate warning for that user.
C22_OneWarningPerUserWithoutRate ==
    ProfitabilityReturned =>
        /\ report.response.totals.cost = Round(CostSum, AmountScale)
        /\ \A u \in UsersLackingCostRate : WarningsFor(u) = 1

\* The cost follows the chain own rate, rate table, 0 in every mode.
C22_CostRateChain ==
    ProfitabilityReturned => report.response.totals.cost = Round(CostSum, AmountScale)

\* No user is warned about twice, and none who has a cost rate.
C22_NeverTwice ==
    ProfitabilityReturned =>
        \A u \in UsersOfCall : WarningsFor(u) <= (IF u \in UsersLackingCostRate THEN 1 ELSE 0)

\* In time_based mode every user without a cost rate is warned about.
C22_TimeBasedWarns ==
    (ProfitabilityReturned /\ report.params.mode = "time_based") =>
        \A u \in UsersLackingCostRate : WarningsFor(u) = 1

\* In time_based mode every user without a cost rate is warned about, unless
\* the warning of an earlier user of the call has the user's name inside it.
C22_TimeBasedWarnsUnlessNamed ==
    (ProfitabilityReturned /\ report.params.mode = "time_based") =>
        \A u \in UsersLackingCostRate :
            \/ WarningsFor(u) = 1
            \/ \E v \in UsersLackingCostRate \ {u} :
                   Includes(NoCostRateWarning(v), UserWord \o u.name)

\* A profitability call of another mode has returned for a user without a cost rate.
C22_OtherModeLacksRate ==
    ProfitabilityReturned /\ report.params.mode # "time_based" /\ UsersLackingCostRate # {}

\* ---------------------------------------------------------------- C23
\* A utilization call has returned.
UtilizationReturned == report.pc = "done" /\ report.response.calc = "utilization"

\* The days of the call's range that count: all of them, or all but the
\* Saturdays and Sundays of the calendar.
DaysThatCount ==
    {day \in report.params.from .. report.params.to :
        report.params.exclude_weekends => day % 7 \notin {0, 6}}

\* The hours a user has a day, in hundredths, and the users that count.
CapacityPerDay ==
    IF report.params.capacity_hours_per_day.defined
    THEN report.params.capacity_hours_per_day.value
    ELSE DefaultCapacityHoursPerDay * HoursScale
ActiveUserCount ==
    IF report.params.user_id.defined THEN 1
    ELSE Cardinality({report.entries[i].user.id : i \in 1 .. Len(report.entries)})

\* The three percentages of the totals for a capacity, each 0 when its
\* denominator is 0.
PercentagesFor(capacity) ==
    LET totals == report.response.totals
        total == SumSeq([i \in 1 .. Len(report.entries) |-> report.entries[i].hours])
        billable == SumSeq([i \in 1 .. Len(report.entries) |->
                               IF report.entries[i].billable THEN report.entries[i].hours
                               ELSE 0])
    IN  /\ totals.total_hours = total
        /\ totals.billable_hours = billable
        /\ totals.utilization_percent =
               IF capacity = 0 THEN 0 ELSE RoundRatio(total, capacity, 100)
        /\ totals.billable_utilization_percent =
               IF capacity = 0 THEN 0 ELSE RoundRatio(billable, capacity, 100)
        /\ totals.billable_ratio_percent =
               IF total = 0 THEN 0 ELSE RoundRatio(billable, total, 100)

\* C23: the totals of a utilization call have working_days = the days of the
\* inclusive range [from, to], without its Saturdays and Sundays when
\* exclude_weekends is set, capacity_hours = working_days *
\* capacity_hours_per_day * the number of active users, and the three
\* percentages over that capacity and the total hours, each 0 when its
\* denominator is 0.
C23_CapacityOfWorkingDays ==
    UtilizationReturned =>
        LET capacity == Cardinality(DaysThatCount) * CapacityPerDay * ActiveUserCount
        IN  /\ report.response.totals.working_days = Cardinality(DaysThatCount)
            /\ report.response.totals.capacity_hours = capacity
            /\ PercentagesFor(capacity)

\* The same in a process whose zone is UTC or east of it.
C23_HoldsFromUtcEastwards ==
    (UtilizationReturned /\ report.utcOffset >= 0) => C23_CapacityOfWorkingDays

\* In every zone the capacity and the percentages are those of the working
\* days the response reports.
C23_CapacityOfReportedDays ==
    UtilizationReturned =>
        LET capacity == report.response.totals.working_days * CapacityPerDay * ActiveUserCount
        IN  /\ report.response.totals.capacity_hours = capacity
            /\ PercentagesFor(capacity)

\* Monday to Friday, 8 hours a day, one user, 30 hours: capacity 40 and
\* utilization 75.
C23_Example ==
    /\ UtilizationReturned
    /\ report.params.to - report.params.from = 4
    /\ report.response.totals.working_days = 5
    /\ ~report.params.capacity_hours_per_day.defined
    /\ ActiveUserCount = 1
    /\ report.response.totals.total_hours = 30 * HoursScale
    /\ report.response.totals.capacity_hours = 40 * HoursScale
    /\ report.response.totals.utilization_percent = 75 * 100

\* Monday to Friday west of UTC with the weekends left out: 4 working days.
C23_MondayLost ==
    /\ UtilizationReturned
    /\ report.utcOffset < 0
    /\ report.params.exclude_weekends
    /\ report.params.from = 1 /\ report.params.to = 5
    /\ report.response.totals.working_days = 4

\* ---------------------------------------------------------------- C24
\* A budget performance call has returned.
PerformanceReturned == perf.pc = "done"

\* The entries the call counts, and those of a (user, project) pair.
CountedEntries ==
    SelectSeq(perf.entries, LAMBDA e :
        Counted(e, perf.projectMap, perf.params.require_person_budget))
EntriesOfPair(userId, projectId) ==
    SelectSeq(CountedEntries, LAMBDA e : e.user.id = userId /\ e.project.id = projectId)

\* The (user, project) pairs the response reports on, with their metrics.
ReportedPairs ==
    UNION {{[user_id |-> perf.response.users[u].user_id,
             metrics |-> perf.response.users[u].projects[p]] :
               p \in 1 .. Len(perf.response.users[u].projects)} :
           u \in 1 .. Len(perf.response.users)}
Tolerance ==
    IF perf.params.on_budget_tolerance_percent.defined
    THEN perf.params.on_budget_tolerance_percent.value
    ELSE DefaultTolerancePercent

\* The pair's metrics are those of its hours and its budget: variance_hours is
\* actual - budget, variance_percent is variance_hours / budget * 100 to two
\* decimals, and null with no budget or a budget of 0 hours; the rating is
\* over_budget iff the percentage is above the tolerance, under_budget iff it
\* is below minus the tolerance, on_budget otherwise and when it is null.
PairMetricsFollow(pair) ==
    LET own == EntriesOfPair(pair.user_id, pair.metrics.project_id)
        actual == SumSeq([i \in 1 .. Len(own) |-> own[i].hours])
        budget == own[1].user_assignment.budget
        variance == actual - budget.value
        has == budget.defined /\ budget.value > 0
    IN  /\ pair.metrics.actual_hours = actual
        /\ pair.metrics.budget_hours = budget
        /\ budget.defined => pair.metrics.variance_hours = variance
        /\ pair.metrics.variance_percent.defined = has
        /\ has => pair.metrics.variance_percent.value = RoundRatio(100 * variance, budget.value, 1)
        /\ pair.metrics.rating = "over_budget" <=>
               (has /\ 100 * variance > Tolerance * budget.value)
        /\ pair.metrics.rating = "under_budget" <=>
               (has /\ 100 * variance < (0 - Tolerance) * budget.value)
        /\ pair.metrics.rating \in {"over_budget", "under_budget", "on_budget"}

C24_OnBudget ==
    /\ PerformanceReturned
    /\ \E pair \in ReportedPairs :
           /\ pair.metrics.actual_hours = 10 * HoursScale
           /\ pair.metrics.budget_hours = Given(10 * HoursScale)
           /\ pair.metrics.rating = "on_budget"
    /\ \E pair \in ReportedPairs :
           /\ ~pair.metrics.budget_hours.defined
           /\ ~pair.metrics.variance_percent.defined
           /\ pair.metrics.rating = "on_budget"

\* The rating is the one of the reported, rounded variance_percent.
RatingOfReportedPercent ==
    PerformanceReturned =>
        \A pair \in ReportedPairs :
            pair.metrics.rating = "over_budget" <=>
                /\ pair.metrics.variance_percent.defined
                /\ pair.metrics.variance_percent.value > 100 * Tolerance

\* ---------------------------------------------------------------- C25
\* getRates has returned, and the user rates of its response with the users
\* of the directory they are for.
RatesReturned == ratesService.pc = "ready" /\ ratesService.response.state = "returned"
DirectoryUser(id) == CHOOSE u \in Elements(RateUsers) : u.id = id
UserRatesReturned == Elements(ratesService.response.users)

\* The override rates.json has for the user's cost rate, if the file is there
\* and parses.
FileOverride(id) ==
    IF ratesService.file.exists /\ ratesService.file.parses
    THEN OverrideOf(ratesService.file.user_overrides, id, "cost_rate")
    ELSE Undefined

\* The first two tiers: the upstream value, else the override of the file.
UpstreamThenOverride(rate) ==
    LET user == DirectoryUser(rate.user_id)
    IN  /\ user.cost_rate.defined =>
               /\ rate.cost_rate.rate = user.cost_rate.value
               /\ rate.cost_rate.source = "harvest_api"
        /\ (~user.cost_rate.defined /\ FileOverride(user.id).defined) =>
               /\ rate.cost_rate.rate = FileOverride(user.id).value
               /\ rate.cost_rate.source = "config_file"

\* The user has neither an upstream cost rate nor an override.
NeitherTier(rate) ==
    /\ ~DirectoryUser(rate.user_id).cost_rate.defined
    /\ ~FileOverride(rate.user_id).defined

\* C25: the cost rate of a user is the upstream value, else the override of
\* the config file, else DEFAULT_COST_RATE with source env_default when that is
\* positive, else 0 with source fallback_zero; the source names the tier that
\* supplied the rate, and fallback_zero comes only with rate 0 and with a
\* warning that names the user.
C25_ChainAndSource ==
    RatesReturned =>
        \A rate \in UserRatesReturned :
            /\ UpstreamThenOverride(rate)
            /\ (NeitherTier(rate) /\ ratesService.defaultCostRate > 0) =>
                   /\ rate.cost_rate.rate = ratesService.defaultCostRate
                   /\ rate.cost_rate.source = "env_default"
            /\ (NeitherTier(rate) /\ ratesService.defaultCostRate = 0) =>
                   /\ rate.cost_rate.rate = 0
                   /\ rate.cost_rate.source = "fallback_zero"
            /\ rate.cost_rate.source = "fallback_zero" =>
                   /\ rate.cost_rate.rate = 0
                   /\ NoCostRateConfigured(DirectoryUser(rate.user_id))
                          \in Elements(ratesService.response.warnings)

\* The first two tiers are as stated.
C25_FirstTwoTiers ==
    RatesReturned => \A rate \in UserRatesReturned : UpstreamThenOverride(rate)

\* With neither tier the rate is defaults.cost_rate of the config, 0 when the
\* file has none, whatever DEFAULT_COST_RATE is; DEFAULT_COST_RATE decides the
\* source only, and fallback_zero comes with a warning that names the user.
C25_ThirdTierIsConfigDefault ==
    RatesReturned =>
        \A rate \in UserRatesReturned :
            /\ NeitherTier(rate) =>
                   /\ rate.cost_rate.rate = ratesService.config.defaults.cost_rate
                   /\ rate.cost_rate.source =
                          IF ratesService.defaultCostRate > 0 THEN "env_default"
                          ELSE "fallback_zero"
            /\ rate.cost_rate.source = "fallback_zero" <=>
                   NoCostRateConfigured(DirectoryUser(rate.user_id))
                       \in Elements(ratesService.response.warnings)

\* A user with neither tier, DEFAULT_COST_RATE positive: rate 0, env_default.
C25_EnvDefaultWithRateZero ==
    /\ RatesReturned
    /\ ratesService.defaultCostRate > 0
    /\ \E rate \in UserRatesReturned :
           /\ NeitherTier(rate)
           /\ rate.cost_rate.rate = 0
           /\ rate.cost_rate.source = "env_default"

\* ---------------------------------------------------------------- C26
\* The rates.json of the service is missing or does not parse.
ConfigFileUnusable == ~ratesService.file.exists \/ ~ratesService.file.parses

\* C26: a missing or unparseable rates.json never makes getRates fail, and
\* every getRates call on such a service, the first and every later one,
\* reports config_loaded = false and has a config-load warning in its warnings.
C26_DegradedEveryCall ==
    (RatesReturned /\ ConfigFileUnusable) =>
        /\ ratesService.config = DefaultConfig
        /\ ratesService.response.config_loaded = FALSE
        /\ ConfigLoadWarning \in Elements(ratesService.response.warnings)

\* The service works with the built-in default config whenever the file is
\* unusable, and the first call reports config_loaded = false.
C26_DefaultConfigAndFirstCall ==
    (RatesReturned /\ ConfigFileUnusable) =>
        /\ ratesService.config = DefaultConfig
        /\ ratesService.calls = 1 => ratesService.response.config_loaded = FALSE

\* The config-load warning is in the response exactly on the first call of a
\* service whose file is there and does not parse.
C26_WarningOnlyOnFirstUnparseable ==
    RatesReturned =>
        (ConfigLoadWarning \in Elements(ratesService.response.warnings)
            <=> /\ ratesService.file.exists /\ ~ratesService.file.parses
                /\ ratesService.calls = 1)

\* config_loaded is false exactly on the first call of a service whose file is
\* unusable.
C26_LoadedOnLaterCalls ==
    RatesReturned =>
        (ratesService.response.config_loaded = FALSE
            <=> (ConfigFileUnusable /\ ratesService.calls = 1))

\* A second call on a service whose file is unusable has returned.
C26_SecondCallReturned == RatesReturned /\ ConfigFileUnusable /\ ratesService.calls = 2

\* ---------------------------------------------------------------- C27
\* The items of the pages 1 .. n of the source, in page order.
ItemsOfPages(n) == Flatten([k \in 1 .. n |-> SourceItems(pg.source, k, pg.perPage)])

\* C27: autoPaginate fetches one page at a time: the pages requested are 1, 2,
\* 3, ... with none skipped or requested twice, a page is requested only when
\* the responses of all pages before it have arrived and their items are
\* appended, and the accumulated items are in page order.
C27_OnePageAtATime ==
    /\ \A i \in 1 .. Len(pg.requested) : pg.requested[i] = i
    /\ Len(pg.requested) \in {pg.received, pg.received + 1}
    /\ pg.pc = "await" <=> Len(pg.requested) = pg.received + 1 /\ pg.rejected = "none"
    /\ pg.allItems = ItemsOfPages(pg.received)
    /\ pg.pc = "done" => pg.result.items = ItemsOfPages(pg.received)

\* Each step requests at most one page, the one after the last response.
C27_RequestsFollowResponses ==
    [][Len(pg'.requested) > Len(pg.requested) =>
           /\ pg'.requested = Append(pg.requested, pg'.received + 1)
           /\ pg'.allItems = ItemsOfPages(pg'.received)]_vars

\* The third page is requested after the items of two pages have been appended.
C27_Witness ==
    /\ pg.pc = "await"
    /\ pg.requested = <<1, 2, 3>>
    /\ pg.received = 2
    /\ Len(pg.allItems) = 2 * pg.perPage
    /\ pg.perPage > 1

\* ---------------------------------------------------------------- C28
\* C28: every upstream send comes, within its attempt, after one acquirePermit
\* call and a wait of the time it returned, together with one recordRequest
\* call: the limiter gains a timestamp exactly in the steps that send, one for
\* each send, retries included.
C28_PermitWaitRecordSend ==
    [][/\ \A t \in Tasks :
              /\ Sends(t) =>
                     /\ \/ task[t].pc = "permit" /\ task[t].waitMs = 0
                        \/ task[t].pc = "delay" /\ task[t].waitMs > 0 /\ task[t].timer = 0
                     /\ task'[t].attempt = task[t].attempt
                     /\ task'[t].sends = task[t].sends + 1
                     /\ apiCallsThisRequest'[t] = apiCallsThisRequest[t] + 1
                     /\ requestTimestamps' = Append(requestTimestamps, 0)
              /\ (task'[t].pc = "permit" /\ task[t].pc # "permit") =>
                     /\ task[t].pc \in {"idle", "done", "failed", "fetch", "retryDelay"}
                     /\ task'[t].waitMs = PermitWait(requestTimestamps', retryAfterLeft)
              /\ (task'[t].pc = "delay" /\ task[t].pc # "delay") =>
                     /\ task[t].pc = "permit"
                     /\ task'[t].timer = task[t].waitMs
                     /\ task'[t].attempt = task[t].attempt
       /\ Len(requestTimestamps') > Len(requestTimestamps) => \E t \in Tasks : Sends(t)
       /\ apiCallsThisRequest' # apiCallsThisRequest => \E t \in Tasks : Sends(t)]_vars

\* While a request is not in flight the sends of the call are the attempts
\* made, and in flight one more: no attempt sends twice.
C28_OneSendPerAttempt ==
    \A t \in Tasks :
        /\ task[t].pc \in {"permit", "delay"} => task[t].sends = task[t].attempt
        /\ task[t].pc \in {"fetch", "retryDelay"} => task[t].sends = task[t].attempt + 1

\* The send of a retry, after a wait that acquirePermit asked for.
C28_Witness ==
    \E t \in Tasks :
        /\ task[t].pc = "fetch"
        /\ task[t].attempt >= 1
        /\ task[t].waitMs > 0
        /\ task[t].sends = task[t].attempt + 1
        /\ requestTimestamps # <<>>

\* ---------------------------------------------------------------- C29
\* The last call on the limiter was acquirePermit or getStatus, made with
\* an embargo running (permit.left is the time the embargo had left).
AcquiredPermit == permit.op = "acquirePermit"
PrunedWindow == SelectSeq(permit.window, LAMBDA age : age < WindowMs)

\* C29: while the embargo of handleRateLimit runs, acquirePermit returns
\* exactly the time the embargo has left, whatever the window holds, and
\* getStatus().isThrottled is true; once the deadline has passed acquirePermit
\* returns what it returns with no embargo at all.
C29_EmbargoDecidesWhileActive ==
    /\ (AcquiredPermit /\ permit.left > 0) => permit.waitMs = permit.left
    /\ (AcquiredPermit /\ permit.left = 0) => permit.waitMs = PermitWait(PrunedWindow, 0)
    /\ (permit.op = "getStatus" /\ permit.left > 0) => permit.status.isThrottled
    /\ permit.op = "handleRateLimit" =>
           /\ retryAfterLeft <= permit.left
           /\ permit.left \in {seconds * MsPerSecond : seconds \in RetrySeconds}

\* The embargo runs down with the time and changes otherwise only by
\* handleRateLimit and reset.
C29_EmbargoRunsDown ==
    [][\/ retryAfterLeft' = retryAfterLeft
       \/ retryAfterLeft' = Max(retryAfterLeft - TickMs, 0) /\ permit' = permit
       \/ permit'.op \in {"handleRateLimit", "reset"}]_vars

\* A handleRateLimit never shortens the embargo that is running.
EmbargoNeverShortened ==
    [][permit'.op = "handleRateLimit" => retryAfterLeft' >= retryAfterLeft]_vars

\* acquirePermit in the middle of an embargo with the window at the limit: the
\* wait is the rest of the embargo, not the time the window needs.
C29_Witness ==
    /\ AcquiredPermit
    /\ permit.left > 0
    /\ permit.left < DefaultRetryAfter * MsPerSecond
    /\ permit.left > MsPerSecond
    /\ Len(PrunedWindow) >= MaxRequests
    /\ permit.waitMs = permit.left

\* ---------------------------------------------------------------- C30
\* Math.floor(windowMs / remaining / 2) capped at 500, for windows and
\* numbers of remaining requests beyond those of the limiter under test.
StaggerOnSamples ==
    \A windowMs \in {MsPerSecond, DefaultRetryAfter * MsPerSecond, WindowMs},
       remaining \in 1 .. 2 * DefaultRetryAfter + 1 :
        StaggerDelay(windowMs, remaining) =
            IF windowMs \div (2 * remaining) < StaggerCapMs THEN windowMs \div (2 * remaining)
            ELSE StaggerCapMs

C30_AtLimit ==
    /\ AcquiredPermit
    /\ permit.left = 0
    /\ Len(PrunedWindow) >= MaxRequests
    /\ permit.waitMs = WindowMs - TickMs

\* acquirePermit below the threshold with requests in the window.
C30_BelowThreshold ==
    /\ AcquiredPermit
    /\ permit.left = 0
    /\ Len(permit.window) > Len(PrunedWindow)
    /\ permit.waitMs = 0

\* ---------------------------------------------------------------- C31
\* C31: the api_calls_made of a _meta is the number of upstream sends made
\* through the client since its counter was last reset, every retry counted and
\* a cache hit counted as none; autoPaginate resets the counter when it starts,
\* so its result reports exactly the sends made for its own pages.
C31_MetaCountsSends ==
    /\ apiCallsThisRequest[Client] = call.sent
    /\ call.pc \in {"done", "page"} => call.meta.api_calls_made = call.sent
    /\ (call.pc = "done" /\ call.op = "autoPaginate") => call.meta.api_calls_made = call.own
    /\ (call.pc = "done" /\ call.op = "get" /\ call.meta.cached) => call.own = 0

\* An autoPaginate call that returned after a retry, on a client that had sent
\* a request before the call: it reports its own two sends.
C31_Witness ==
    /\ call.pc = "done"
    /\ call.op = "autoPaginate"
    /\ call.meta.api_calls_made = 2
    /\ task[Client].calls = 2
    /\ CacheIndex(cache, GenerateKey(PathC, NoParams)) # {}

\* A page served from the cache adds nothing to what autoPaginate reports.
C31_CachedPage ==
    /\ call.pc = "done"
    /\ call.op = "autoPaginate"
    /\ call.meta.api_calls_made = 0
    /\ task[Client].result.cached

\* A get outside autoPaginate reports the sends of the calls before it too:
\* nothing but autoPaginate resets the counter.
C31_GetCountsOwnSendsOnly ==
    (call.pc = "done" /\ call.op = "get") => call.meta.api_calls_made = call.own

\* ---------------------------------------------------------------- C32
\* The users of the response that qualify for the two lists.
UnderBudgetUsers ==
    {u \in Elements(perf.response.users) : u.metrics.overall_rating = "under_budget"}
RepeatOffenders ==
    {u \in Elements(perf.response.users) : u.metrics.projects_over_budget >= 2}
ListedIds(list) == {list[i].user_id : i \in 1 .. Len(list)}

\* C32: top_performers holds at most 5 users, all rated under_budget overall,
\* from the most under budget on; over_budget_repeat_offenders holds at most 5
\* users, each with at least 2 over-budget projects, by the number of
\* over-budget projects descending; a qualifying user is left out of a list
\* only when the list holds 5 users ranked at least as high.
C32_TopFiveLists ==
    PerformanceReturned =>
        LET top == perf.response.top_performers
            rep == perf.response.over_budget_repeat_offenders
        IN  /\ Len(top) <= 5
            /\ Cardinality(ListedIds(top)) = Len(top)
            /\ \A i \in 1 .. Len(top) :
                   \E u \in UnderBudgetUsers :
                       /\ u.user_id = top[i].user_id
                       /\ u.metrics.total_variance_percent = Given(top[i].variance_percent)
            /\ \A i, j \in 1 .. Len(top) :
                   i < j => top[i].variance_percent <= top[j].variance_percent
            /\ \A u \in UnderBudgetUsers :
                   u.user_id \notin ListedIds(top) =>
                       /\ Len(top) = 5
                       /\ \A i \in 1 .. Len(top) :
                              top[i].variance_percent <= u.metrics.total_variance_percent.value
            /\ Len(rep) <= 5
            /\ Cardinality(ListedIds(rep)) = Len(rep)
            /\ \A i \in 1 .. Len(rep) :
                   \E u \in RepeatOffenders :
                       /\ u.user_id = rep[i].user_id
                       /\ u.metrics.projects_over_budget = rep[i].projects_over
                       /\ rep[i].projects_over >= 2
            /\ \A i, j \in 1 .. Len(rep) : i < j => rep[i].projects_over >= rep[j].projects_over
            /\ \A u \in RepeatOffenders :
                   u.user_id \notin ListedIds(rep) =>
                       /\ Len(rep) = 5
                       /\ \A i \in 1 .. Len(rep) :
                              rep[i].projects_over >= u.metrics.projects_over_budget

\* Six users who all qualify for both lists, with different variances and
\* different numbers of over-budget projects: each list holds 5 of them and
\* leaves one out.
C32_Witness ==
    /\ PerformanceReturned
    /\ Cardinality(UnderBudgetUsers) = 6
    /\ Cardinality(RepeatOffenders) = 6
    /\ Len(perf.response.top_performers) = 5
    /\ Len(perf.response.over_budget_repeat_offenders) = 5
    /\ perf.response.top_performers[1].variance_percent
           < perf.response.top_performers[5].variance_percent
    /\ perf.response.over_budget_repeat_offenders[1].projects_over
           > perf.response.over_budget_repeat_offenders[5].projects_over

\* A user with one over-budget project is on neither list.
C32_OneOverIsNoOffender ==
    /\ PerformanceReturned
    /\ \E u \in Elements(perf.response.users) :
           /\ u.metrics.projects_over_budget = 1
           /\ u.user_id \notin ListedIds(perf.response.over_budget_repeat_offenders)

\* ---------------------------------------------------------------- C33
\* The step begins a call of request by task t that the cache can answer: a
\* GET without skipCache whose key has an entry younger than the ttl.
BeginsCacheHit(t) ==
    /\ task'[t].calls = task[t].calls + 1
    /\ task'[t].req.method = "GET"
    /\ ~task'[t].req.skipCache
    /\ \E i \in 1 .. Len(cache) :
           /\ cache[i].key = GenerateKey(task'[t].req.path, task'[t].req.params)
           /\ cache[i].age < TtlMs

\* Such a call returns at once the stored data with cached = true and the age
\* of the entry in seconds; it asks for no permit, records and sends nothing,
\* leaves the limiter and the counter alone, and the entries of the cache with
\* their ages are what they were.
OnCacheHit(t) ==
    BeginsCacheHit(t) =>
        LET key == GenerateKey(task'[t].req.path, task'[t].req.params)
            e == cache[CHOOSE i \in 1 .. Len(cache) : cache[i].key = key]
        IN  /\ task'[t].pc = "done"
            /\ task'[t].result = Returned(e.data, TRUE, TRUE, e.tsAge \div 1000)
            /\ task'[t].attempt = 0
            /\ task'[t].sends = 0
            /\ ~Sends(t)
            /\ requestTimestamps' = requestTimestamps
            /\ retryAfterLeft' = retryAfterLeft
            /\ call'.op = "get" => apiCallsThisRequest' = apiCallsThisRequest
            /\ call'.own = 0
            /\ Len(cache') = Len(cache)
            /\ Elements(cache') = Elements(cache)

\* get hands the cached result on with its _meta: cached, the age, and the
\* count the client had before the call.
CachedMeta(t) ==
    (call.pc = "get" /\ call'.pc = "done" /\ task[t].result.cached) =>
        /\ call'.data = task[t].result.data
        /\ call'.meta.cached
        /\ call'.meta.ageDefined
        /\ call'.meta.cache_age_seconds = task[t].result.cacheAge
        /\ call'.meta.api_calls_made = call.sent
        /\ call.own = 0
        /\ cache' = cache
        /\ Len(requestTimestamps') <= Len(requestTimestamps)

\* C33: a GET request answered from the cache (a valid entry for its key,
\* skipCache false) returns the stored data with cached = true and the entry's
\* age, performs no acquirePermit, no recordRequest and no upstream send,
\* leaves api_calls_made unchanged and does not modify the entry or its age.
C33_CacheHitTouchesNothing ==
    [][\A t \in Tasks : OnCacheHit(t) /\ CachedMeta(t)]_vars

\* The second get of a path, one tick after the first was answered by the
\* upstream: it is served from the cache with the age of the entry, and the
\* count is still the one send of the first.
C33_Witness ==
    /\ call.pc = "done"
    /\ call.op = "get"
    /\ call.meta.cached
    /\ call.meta.cache_age_seconds = TickMs \div MsPerSecond
    /\ call.meta.api_calls_made = 1
    /\ task[Client].calls = 2
    /\ task[Client].sends = 0
    /\ \E i \in 1 .. Len(cache) : cache[i].key = GenerateKey(task[Client].req.path, task[Client].req.params)
                                   /\ cache[i].tsAge = TickMs

\* ---------------------------------------------------------------- C34
\* C34: once handleRateLimit has set an embargo on the shared limiter, no task
\* sends an upstream request before the deadline of the embargo, the tasks
\* included that had their wait time from acquirePermit before the 429 came.
C34_NoSendDuringEmbargo ==
    [][\A t \in Tasks : Sends(t) => retryAfterLeft = 0]_vars

\* A send during the embargo is one of a task at the end of a delay: the wait
\* acquirePermit gave it was over before the embargo that another task's 429
\* set or extended in the meantime.  No task sends straight from a permit.
C34_OnlyStaleWaitsSend ==
    [][\A t \in Tasks : (Sends(t) /\ retryAfterLeft > 0) => task[t].pc = "delay"]_vars

\* A task alone never sends during the embargo its own 429 set.
C34_AloneHolds ==
    [][Sends(Client) => retryAfterLeft = 0]_vars

\* ---------------------------------------------------------------- C35
\* The step is the rejection of task t's fetch with a network error.
FetchRejects(t) ==
    /\ task[t].pc = "fetch"
    /\ task'[t].pc # "fetch"
    /\ task'[t].resp.kind = "neterr"

\* After a rejected fetch the next attempt starts with acquirePermit on the
\* limiter as it is, with no wait in between, as long as fewer than 3 attempts
\* were made; after the third the call fails with the error of that fetch.
OnNetworkError(t) ==
    FetchRejects(t) =>
        /\ cache' = cache
        /\ retryAfterLeft' = retryAfterLeft
        /\ task'[t].sends = task[t].sends
        /\ IF task[t].attempt + 1 < 3
           THEN /\ task'[t].pc = "permit"
                /\ task'[t].attempt = task[t].attempt + 1
                /\ task'[t].lastError = FetchError(task[t].attempt)
                /\ task'[t].waitMs = PermitWait(requestTimestamps', retryAfterLeft)
                /\ task'[t].result.state = "none"
           ELSE /\ task'[t].pc = "failed"
                /\ task[t].sends = 3
                /\ task'[t].result = Thrown(FetchError(task[t].attempt))

\* A response with data that arrives on an attempt after a rejected fetch is
\* returned as on the first attempt and, for a GET that uses the cache, stored.
OnSuccessAfterNetworkError(t) ==
    (/\ task[t].pc = "fetch"
     /\ task[t].lastError.name = "TypeError"
     /\ task'[t].pc = "done") =>
        /\ task'[t].result = Returned(task'[t].resp.body, FALSE, FALSE, 0)
            \/ (task'[t].resp.status = 204 /\ task'[t].result = Returned("undefined", FALSE, FALSE, 0))
        /\ task[t].sends = task[t].attempt + 1
        /\ (task[t].req.method = "GET" /\ ~task[t].req.skipCache /\ task'[t].resp.status # 204) =>
               /\ cache' # <<>>
               /\ cache'[Len(cache')] =
                      [key |-> GenerateKey(task[t].req.path, task[t].req.params),
                       data |-> task'[t].resp.body, tsAge |-> 0, age |-> 0]

\* C35: when fetch rejects with a network error, request retries the attempt,
\* through acquirePermit and recordRequest again, until maxRetries attempts are
\* used and then throws the last network error; a success on a later attempt
\* is returned normally and, for a GET, cached.
C35_NetworkErrorRetried ==
    [][\A t \in Tasks : OnNetworkError(t) /\ OnSuccessAfterNetworkError(t)]_vars

\* A GET that succeeded on its third attempt after two rejected fetches: three
\* sends, the data returned and in the cache.
C35_Witness ==
    /\ task[Client].pc = "done"
    /\ task[Client].req.method = "GET"
    /\ ~task[Client].req.skipCache
    /\ task[Client].attempt = 2
    /\ task[Client].sends = 3
    /\ task[Client].lastError = FetchError(1)
    /\ task[Client].result = Returned("d1", FALSE, FALSE, 0)
    /\ \E i \in 1 .. Len(cache) :
           /\ cache[i].key = GenerateKey(task[Client].req.path, task[Client].req.params)
           /\ cache[i].data = "d1"

\* Three rejected fetches: the call fails with the error of the third.
C35_GaveUp ==
    /\ task[Client].pc = "failed"
    /\ task[Client].sends = 3
    /\ task[Client].result = Thrown(FetchError(2))

\* ---------------------------------------------------------------- C36
\* The lists of a snapshot are those of one complete fetch of the upstream.
CompleteSnapshot(snapshot) ==
    LET whole == SnapshotOf(NamedDirectory) IN
    /\ snapshot.clients = whole.clients
    /\ snapshot.projects = whole.projects
    /\ snapshot.users = whole.users
    /\ snapshot.tasks = whole.tasks

\* The step in which a refresh fails leaves the snapshot alone and ends the
\* resolve call with the error of the fetch.
OnRefreshFailure ==
    (resolver.pc = "refreshing" /\ resolver'.pc = "failed") =>
        /\ resolver'.snapshot = resolver.snapshot
        /\ resolver'.result.state = "thrown"
        /\ resolver'.result.error \in RefreshErrors
        /\ resolver'.result.results = <<>>

\* The resolve call that follows a failed one starts a refresh.
AfterRefreshFailure ==
    (resolver.pc = "failed" /\ resolver'.pc # "failed") =>
        /\ resolver'.pc = "refreshing"
        /\ resolver'.fetched
        /\ resolver'.snapshot = resolver.snapshot

\* C36: if one of the four directory fetches of a refresh fails, resolve fails
\* with that error and the resolver's snapshot, or the absence of one, and its
\* fetched_at are as before: no partly refreshed snapshot is stored or matched
\* against, and the next resolve attempts a refresh again.
C36_FailedRefreshKeepsSnapshot ==
    /\ [](resolver.snapshot.present => CompleteSnapshot(resolver.snapshot))
    /\ [](resolver.pc = "failed" => ~IsCacheValid(resolver.snapshot))
    /\ [][OnRefreshFailure /\ AfterRefreshFailure]_vars

\* A resolve that failed on the refresh of a snapshot that had run out: the
\* resolver still holds the old snapshot with its age.
C36_Witness ==
    /\ resolver.pc = "failed"
    /\ resolver.result.state = "thrown"
    /\ resolver.snapshot.present
    /\ resolver.snapshot.age = CacheMaxAge
    /\ CompleteSnapshot(resolver.snapshot)

\* A resolve that failed on the first refresh: there is no snapshot.
C36_StillNone ==
    /\ resolver.pc = "failed"
    /\ ~resolver.snapshot.present

\* A call of getHarvestClient returns.
Returns == auth.pc # "returned" /\ auth'.pc = "returned"
\* A call of getHarvestClient returns a client.
ReturnsClient == Returns /\ auth'.client.present

\* A client is returned for a non-empty access token, the session's.
ClientForToken ==
    ReturnsClient =>
        /\ auth'.client.accessToken # ""
        /\ auth'.client.accessToken = auth'.session.harvestAccessToken

\* A client returned when the token was within the buffer is one of a refresh
\* that resolved, and the store holds the new tokens and the new expiry.
ClientAfterStoredRefresh ==
    (ReturnsClient /\ auth.dueAtCall) =>
        /\ auth.pc = "refreshing"
        /\ \E newTokens \in TokenResponses :
              /\ auth'.stored.harvestAccessToken = newTokens.access_token
              /\ auth'.stored.harvestRefreshToken = newTokens.refresh_token
              /\ auth'.stored.tokenExpiresLeft = newTokens.expires_in * MsPerSecond
              /\ auth'.client.accessToken = newTokens.access_token
\* A client returned without a refresh is one for a token outside the buffer.
ClientWithoutRefresh ==
    (ReturnsClient /\ auth.pc # "refreshing") => ~ExpiresWithinBuffer(auth.session)

\* A refresh that fails returns null and clears the stored access token.
FailedRefreshClears ==
    (auth.pc = "refreshing" /\ auth'.pc = "returned" /\ ~auth'.client.present) =>
        /\ auth'.stored.harvestAccessToken = ""
        /\ auth'.session.harvestAccessToken = ""

\* C37: getHarvestClient returns a client only for a session whose access
\* token is non-empty and, when the token expires within 5 minutes, only after
\* a successful refresh whose new tokens and expiry have been written to the
\* session store; when the refresh fails it returns null and the stored
\* session's access token is cleared, and every later call returns null until
\* the session is authorized again.
C37_ClientOnlyWithValidToken ==
    /\ [][ClientForToken /\ ClientAfterStoredRefresh /\ ClientWithoutRefresh
              /\ FailedRefreshClears]_vars
    /\ [][(auth.failedSince /\ Returns) => ~auth'.client.present]_vars
    /\ [](auth.failedSince => auth.stored.harvestAccessToken = "")

\* A call after a failed refresh has returned null: the session was loaded
\* from the store after the failure and the call found no access token.
C37_Witness ==
    /\ auth.failedSince
    /\ auth.pc = "returned"
    /\ ~auth.dueAtCall
    /\ ~auth.client.present
    /\ auth.session = auth.stored
    /\ auth.session.harvestRefreshToken = "r2"

\* A call has returned a client after a refresh at exactly five minutes
\* before the expiry.
C37_RefreshedClient ==
    /\ auth.pc = "returned"
    /\ auth.dueAtCall
    /\ auth.client = HarvestClient("a2")
    /\ auth.stored.harvestAccessToken = "a2"

\* getByOAuthState(state) returns a session that is stored under its id.
ResolvesToStored(state) ==
    LET found == MemoryGetByOAuthState(memoryStore, state)
    IN  found.present =>
            /\ found.id \in DOMAIN memoryStore.sessions
            /\ memoryStore.sessions[found.id] = found
\* getByOAuthState(state) returns a session whose pending state is state.
ResolvesToPending(state) ==
    LET found == MemoryGetByOAuthState(memoryStore, state)
    IN  found.present => found.pendingOAuthState = PendingState(state)

\* C38: in MemorySessionStore, after any sequence of set, setPendingAuth,
\* touch, delete and cleanup calls, getByOAuthState(s) returns a session only
\* if that session is still stored and its current pendingOAuthState equals s.
C38_StateResolvesToItsHolder ==
    \A state \in OAuthStates : ResolvesToStored(state) /\ ResolvesToPending(state)

\* What holds: a session that getByOAuthState returns is one of the store.
C38_ResolvesToStoredSession ==
    \A state \in OAuthStates : ResolvesToStored(state)

\* touch's set is carried out.
TouchWrites == kv.mcp.pc = "set" /\ kv'.mcp.pc = "idle"
\* The stored session is as before but for lastAccessedAt.
OnlyLastAccessedChanges ==
    [kv'.session EXCEPT !.lastAccessedAge = kv.session.lastAccessedAge] = kv.session

\* C39: in KVSessionStore, touch(sessionId) changes only lastAccessedAt, also
\* when a set of the same session falls between its read and its write: the
\* stored session still carries the tokens and fields written by that set.
C39_TouchChangesOnlyLastAccessed ==
    [][TouchWrites => OnlyLastAccessedChanges]_vars

\* What holds: a touch with no set of the session between its read and its
\* write changes only lastAccessedAt.
C39_UndisturbedTouch ==
    [][(TouchWrites /\ ~kv.setSinceRead) => OnlyLastAccessedChanges]_vars
====
